---- MODULE Spec2Model ----
(***************************************************************************)
(* Interpolation grids (fbpic/fields/interpolation_grid.py) and the        *)
(* threaded field-gathering kernels                                        *)
(* (fbpic/particles/gathering/threading_methods.py) of FBPIC.              *)
(*                                                                         *)
(* Floating-point numbers are modelled as exact rationals <<n, d>>; the    *)
(* irrational constants pi and epsilon_0 are kept as symbolic exponents.   *)
(***************************************************************************)
EXTENDS Integers, Sequences, FiniteSets, TLC

VARIABLES
    (* ---- interpolation grid object ---- *)
    cuda_installed, \* fbpic.utils.cuda.cuda_installed: a CUDA device is usable
    obj,            \* class of the constructed grid object, or "none"
    meta,           \* Nz, Nr, m, dz, dr, zmin, zmax, rmax, invvol, use_cuda
    fields,         \* array attribute name -> content of the Nz x Nr array
    resident,       \* array attribute name -> "host" (ndarray) or "device"
    lastcall,       \* the last method call and its arguments
    raised,         \* the exception the last call ended with, or "none"
    writes,         \* number of external writes into the field arrays so far
    divs            \* number of volume divisions so far

gridvars == <<cuda_installed, obj, meta, fields, resident, lastcall, raised,
              writes, divs>>

VARIABLES
    (* ---- one call of a gathering kernel ---- *)
    kernel,         \* the kernel called, or "none"
    kgrid,          \* arguments invdz, zmin, Nz, invdr, rmin, Nr
    karr,           \* the grid array arguments (per-mode arrays or tuples)
    kopt,           \* arguments dt, averaging, nthreads, ptcl_chunk_indices
    ptcl_x,         \* argument x: particle index -> position
    ptcl_y,         \* argument y
    ptcl_z,         \* argument z
    out,            \* output array name -> (particle index -> value)
    proc,           \* iteration of the (parallel) outer loop -> its position
                    \* in the loop body and its local variables
    scratch,        \* the arrays Sr, Sz of each iteration of the cubic kernels
    visits,         \* particle index -> the outer-loop iterations that took it
    graised,        \* the exception the kernel call ended with, or "none"
    calls           \* the argument averaging of each call made on these arrays

gathervars == <<kernel, kgrid, karr, kopt, ptcl_x, ptcl_y, ptcl_z, out, proc,
                scratch, visits, graised, calls>>

VARIABLES
    (* ---- a DHT object of hankel_dt.py and the last call made on it ---- *)
    dht,            \* the attributes of the object, once constructed
    hcall           \* the last call: arguments, routines run, outcome

hankelvars == <<dht, hcall>>

vars == <<gridvars, gathervars, hankelvars>>

\* no DHT object, no call
NoObject ==
    [exists |-> FALSE, method |-> "none", p |-> 0, N |-> 0, m |-> 0,
     d |-> FALSE, Fw |-> "none"]
NoCallYet ==
    [op |-> "none", method |-> "none", nu |-> FALSE, r |-> FALSE, len |-> 0,
     ran |-> <<>>, result |-> <<>>, exc |-> "none"]
NoHankel == dht = NoObject /\ hcall = NoCallYet

----------------------------------------------------------------------------
(* Bounds of the model *)
MaxNz == 2
MaxNr == 2
MaxWrites == 1
MaxDivs == 1
GatherNz == 3
GatherNr == 2
NParticles == 2
MaxThreads == 2
MaxCalls == 2
MaxDhtN == 2
EndToEndNz == 80
EndToEndNr == 25

----------------------------------------------------------------------------
(* Exact arithmetic standing for the float arithmetic of the source *)

Abs(n) == IF n < 0 THEN -n ELSE n

RECURSIVE GCD(_, _)
GCD(a, b) == IF b = 0 THEN a ELSE GCD(b, a % b)

\* the rational n/d in lowest terms with a positive denominator
Rat(n, d) ==
    LET g == GCD(Abs(n), Abs(d))
        s == IF d < 0 THEN -1 ELSE 1
    IN  <<(s * n) \div g, (s * d) \div g>>

RInt(n) == <<n, 1>>
RAdd(a, b) ==
    LET k == GCD(a[2], b[2])
    IN  Rat(a[1] * (b[2] \div k) + b[1] * (a[2] \div k), (a[2] \div k) * b[2])
RSub(a, b) == RAdd(a, <<-b[1], b[2]>>)
RMul(a, b) == Rat(a[1] * b[1], a[2] * b[2])
RDiv(a, b) == Rat(a[1] * b[2], a[2] * b[1])
RIsZero(a) == a[1] = 0
RPos(a) == a[1] > 0
RNeg(a) == a[1] < 0

\* a complex array entry (re + i*im) * pi^(-pi) * epsilon_0^(-e0)
CVal(re, im, kpi, ke0) == [re |-> re, im |-> im, pi |-> kpi, e0 |-> ke0]
CInt(a, b) == CVal(RInt(a), RInt(b), 0, 0)
CZero == CInt(0, 0)
CIsZero(v) == RIsZero(v.re) /\ RIsZero(v.im)

----------------------------------------------------------------------------
(* InterpolationGrid and its two subclasses *)

FieldArrays == <<"Er", "Et", "Ez", "Br", "Bt", "Bz", "Jr", "Jt", "Jz", "rho">>
EnvelopeArrays == <<"a", "dta", "grad_a_r", "grad_a_t", "grad_a_z", "chi", "chi_a">>

SeqRange(s) == {s[k] : k \in DOMAIN s}

ArraysOf(cls) ==
    CASE cls = "field" -> FieldArrays
      [] cls = "envelope" -> EnvelopeArrays
      [] OTHER -> <<>>

Cells(Nz, Nr) == (0 .. Nz - 1) \X (0 .. Nr - 1)

\* (variant: np.ones( (Nz, Nr), dtype='complex' ))
np_ones(Nz, Nr) == [c \in Cells(Nz, Nr) |-> CInt(1, 0)]

\* np.zeros( (Nz, Nr), dtype='complex' )
np_zeros(Nz, Nr) == [c \in Cells(Nz, Nr) |-> CZero]

\* r = (0.5 + np.arange(Nr))*dr, entry j
CellRadius(j, dr) == RMul(Rat(2 * j + 1, 2), dr)

\* (variant: the volume of a cell of a Cartesian grid, dz*dr*dr)
CellVolume_Planar(j, dz, dr) == RMul(dz, RMul(dr, dr))

\* vol = np.pi*dz*( (r+0.5*dr)**2 - (r-0.5*dr)**2 ), entry j, as the
\* rational coefficient of pi
CellVolume(j, dz, dr) ==
    LET r == CellRadius(j, dr)
        hi == RAdd(r, RMul(Rat(1, 2), dr))
        lo == RSub(r, RMul(Rat(1, 2), dr))
    IN  RMul(dz, RSub(RMul(hi, hi), RMul(lo, lo)))

\* self.invvol = 1./vol, entry j, as the rational coefficient of 1/pi
InvVol(j, dz, dr) == RDiv(RInt(1), CellVolume(j, dz, dr))

NoMeta == [Nz |-> 0, Nr |-> 0, m |-> 0, dz |-> RInt(0), dr |-> RInt(0),
           zmin |-> 0, zmax |-> 0, rmax |-> 0, invvol |-> <<>>,
           use_cuda |-> FALSE]

\* variant: the constructor without self.invdz = 1./dz
InterpolationGrid_init_NoInvdz(Nz, Nr, m, zmin, zmax, rmax, use_cuda, cuda) ==
    IF Nr = 0 \/ Nz = 0 \/ rmax = 0
    THEN [exc |-> "ZeroDivisionError", meta |-> NoMeta]
    ELSE IF use_cuda /\ ~cuda THEN [exc |-> "CudaSupportError", meta |-> NoMeta]
    ELSE [exc |-> "none",
          meta |-> [Nz |-> Nz, Nr |-> Nr, m |-> m, dz |-> Rat(zmax - zmin, Nz),
                    dr |-> Rat(rmax, Nr), zmin |-> zmin, zmax |-> zmax,
                    rmax |-> rmax,
                    invvol |-> [j \in 0 .. Nr - 1 |-> RInt(1)],
                    use_cuda |-> use_cuda]]

\* InterpolationGrid.__init__ : the exception it ends with ("none" when it
\* returns) and the attributes it has set by then.  The arguments are Python
\* int (Nz, Nr) and float (zmin, zmax, rmax) objects, whose division by zero
\* raises.
InterpolationGrid_init(Nz, Nr, m, zmin, zmax, rmax, use_cuda, cuda) ==
    IF Nr = 0 THEN [exc |-> "ZeroDivisionError", meta |-> NoMeta]      \* dr = rmax/Nr
    ELSE IF Nz = 0 THEN [exc |-> "ZeroDivisionError", meta |-> NoMeta] \* dz = (zmax-zmin)/Nz
    ELSE
      LET dr == Rat(rmax, Nr)
          dz == Rat(zmax - zmin, Nz)
      IN  IF RIsZero(dr) THEN [exc |-> "ZeroDivisionError", meta |-> NoMeta] \* 1./dr
          ELSE IF RIsZero(dz) THEN [exc |-> "ZeroDivisionError", meta |-> NoMeta] \* 1./dz
          ELSE IF use_cuda /\ ~cuda
               THEN [exc |-> "CudaSupportError", meta |-> NoMeta] \* cuda.to_device
          ELSE [exc |-> "none",
                meta |-> [Nz |-> Nz, Nr |-> Nr, m |-> m, dz |-> dz, dr |-> dr,
                          zmin |-> zmin, zmax |-> zmax, rmax |-> rmax,
                          invvol |-> [j \in 0 .. Nr - 1 |-> InvVol(j, dz, dr)],
                          use_cuda |-> use_cuda]]

\* FieldInterpolationGrid.__init__ / EnvelopeInterpolationGrid.__init__ :
\* the parent constructor, then one np.zeros per array attribute (np.zeros
\* raises ValueError on a negative dimension)
SubGrid_init(cls, Nz, Nr, m, zmin, zmax, rmax, use_cuda, cuda) ==
    LET base == InterpolationGrid_init(Nz, Nr, m, zmin, zmax, rmax, use_cuda, cuda)
    IN  IF base.exc # "none" THEN [exc |-> base.exc, meta |-> NoMeta, fields |-> <<>>]
        ELSE IF cls # "base" /\ (Nz < 0 \/ Nr < 0)
             THEN [exc |-> "ValueError", meta |-> NoMeta, fields |-> <<>>]
        ELSE [exc |-> "none", meta |-> base.meta,
              fields |-> [n \in SeqRange(ArraysOf(cls)) |-> np_zeros(Nz, Nr)]]

----------------------------------------------------------------------------
(* Array operations *)

\* variant: arr[1:,:] = 0.
ZeroArray_SkipsFirstRow(arr) ==
    [c \in DOMAIN arr |-> IF c[1] = 0 THEN arr[c] ELSE CZero]

\* arr[:,:] = 0.
ZeroArray(arr) == [c \in DOMAIN arr |-> CZero]

\* cuda_erase_scalar[dim_grid, dim_block](arr)
cuda_erase_scalar(arr) == [c \in DOMAIN arr |-> CZero]

\* cuda_erase_vector[dim_grid, dim_block](a1, a2, a3), applied to one of them
cuda_erase_vector(arr) == [c \in DOMAIN arr |-> CZero]

\* the product of an array entry by the real factor w/pi
MulByInvvol(v, w) ==
    IF CIsZero(v) THEN CZero
    ELSE CVal(RMul(v.re, w), RMul(v.im, w), v.pi + 1, v.e0)

\* the product of an array entry by the real factor (w/pi)/epsilon_0
MulByInvvolOverE0(v, w) ==
    IF CIsZero(v) THEN CZero
    ELSE CVal(RMul(v.re, w), RMul(v.im, w), v.pi + 1, v.e0 + 1)

\* variant: arr *= self.invvol[0]
TimesInvvol_NoBroadcast(arr, invvol) ==
    [c \in DOMAIN arr |-> MulByInvvol(arr[c], invvol[0])]

\* arr *= self.invvol[np.newaxis,:]
TimesInvvol(arr, invvol) == [c \in DOMAIN arr |-> MulByInvvol(arr[c], invvol[c[2]])]

\* arr *= self.invvol[np.newaxis,:] / epsilon_0
TimesInvvolOverE0(arr, invvol) ==
    [c \in DOMAIN arr |-> MulByInvvolOverE0(arr[c], invvol[c[2]])]

\* cuda_divide_scalar_by_volume[dim_grid, dim_block](arr, d_invvol)
cuda_divide_scalar_by_volume(arr, invvol) ==
    [c \in DOMAIN arr |-> MulByInvvol(arr[c], invvol[c[2]])]

\* cuda_divide_vector_by_volume[dim_grid, dim_block](a1, a2, a3, d_invvol),
\* applied to one of the three
cuda_divide_vector_by_volume(arr, invvol) ==
    [c \in DOMAIN arr |-> MulByInvvol(arr[c], invvol[c[2]])]

\* f with the arrays named in `names` replaced by op(array)
Apply(f, names, op(_)) == [n \in DOMAIN f |-> IF n \in names THEN op(f[n]) ELSE f[n]]

Returned(f) == [exc |-> "none", fields |-> f]
Raise(e, f) == [exc |-> e, fields |-> f]

\* variant: the final else branch of erase does not raise
FieldInterpolationGrid_erase_Fallthrough(use_cuda, fieldtype, f) ==
    CASE fieldtype = "rho" -> Returned(Apply(f, {"rho"}, ZeroArray))
      [] fieldtype = "J" -> Returned(Apply(f, {"Jr", "Jt", "Jz"}, ZeroArray))
      [] fieldtype = "E" -> Returned(Apply(f, {"Er", "Et", "Ez"}, ZeroArray))
      [] fieldtype = "B" -> Returned(Apply(f, {"Br", "Bt", "Bz"}, ZeroArray))
      [] OTHER -> Returned(f)

\* variant: erase('rho') erases the current along with the charge
FieldInterpolationGrid_erase_Sources(use_cuda, fieldtype, f) ==
    CASE fieldtype = "rho" -> Returned(Apply(f, {"rho", "Jr", "Jt", "Jz"}, ZeroArray))
      [] fieldtype = "J" -> Returned(Apply(f, {"Jr", "Jt", "Jz"}, ZeroArray))
      [] fieldtype = "E" -> Returned(Apply(f, {"Er", "Et", "Ez"}, ZeroArray))
      [] fieldtype = "B" -> Returned(Apply(f, {"Br", "Bt", "Bz"}, ZeroArray))
      [] OTHER -> Raise("ValueError", f)

\* FieldInterpolationGrid.erase
FieldInterpolationGrid_erase(use_cuda, fieldtype, f) ==
    IF use_cuda
    THEN CASE fieldtype = "rho" -> Returned(Apply(f, {"rho"}, cuda_erase_scalar))
           [] fieldtype = "J" -> Returned(Apply(f, {"Jr", "Jt", "Jz"}, cuda_erase_vector))
           [] fieldtype = "E" -> Returned(Apply(f, {"Er", "Et", "Ez"}, cuda_erase_vector))
           [] fieldtype = "B" -> Returned(Apply(f, {"Br", "Bt", "Bz"}, cuda_erase_vector))
           [] OTHER -> Raise("ValueError", f)
    ELSE CASE fieldtype = "rho" -> Returned(Apply(f, {"rho"}, ZeroArray))
           [] fieldtype = "J" -> Returned(Apply(f, {"Jr", "Jt", "Jz"}, ZeroArray))
           [] fieldtype = "E" -> Returned(Apply(f, {"Er", "Et", "Ez"}, ZeroArray))
           [] fieldtype = "B" -> Returned(Apply(f, {"Br", "Bt", "Bz"}, ZeroArray))
           [] OTHER -> Raise("ValueError", f)

\* EnvelopeInterpolationGrid.erase
EnvelopeInterpolationGrid_erase(use_cuda, fieldtype, f) ==
    IF use_cuda
    THEN CASE fieldtype = "chi" -> Returned(Apply(f, {"chi"}, cuda_erase_scalar))
           [] fieldtype = "chi_a" -> Returned(Apply(f, {"chi_a"}, cuda_erase_scalar))
           [] OTHER -> Raise("ValueError", f)
    ELSE CASE fieldtype = "chi" -> Returned(Apply(f, {"chi"}, ZeroArray))
           [] fieldtype = "chi_a" -> Returned(Apply(f, {"chi_a"}, ZeroArray))
           [] OTHER -> Raise("ValueError", f)

\* variant: divide_by_volume with the branches of erase ('E' and 'B' too)
FieldInterpolationGrid_divide_by_volume_AllGroups(use_cuda, invvol, fieldtype, f) ==
    LET cpu(arr) == TimesInvvol(arr, invvol)
    IN  CASE fieldtype = "rho" -> Returned(Apply(f, {"rho"}, cpu))
          [] fieldtype = "J" -> Returned(Apply(f, {"Jr", "Jt", "Jz"}, cpu))
          [] fieldtype = "E" -> Returned(Apply(f, {"Er", "Et", "Ez"}, cpu))
          [] fieldtype = "B" -> Returned(Apply(f, {"Br", "Bt", "Bz"}, cpu))
          [] OTHER -> Raise("ValueError", f)

\* FieldInterpolationGrid.divide_by_volume
FieldInterpolationGrid_divide_by_volume(use_cuda, invvol, fieldtype, f) ==
    LET gpu(arr) == cuda_divide_scalar_by_volume(arr, invvol)
        gpuv(arr) == cuda_divide_vector_by_volume(arr, invvol)
        cpu(arr) == TimesInvvol(arr, invvol)
    IN  IF use_cuda
        THEN CASE fieldtype = "rho" -> Returned(Apply(f, {"rho"}, gpu))
               [] fieldtype = "J" -> Returned(Apply(f, {"Jr", "Jt", "Jz"}, gpuv))
               [] OTHER -> Raise("ValueError", f)
        ELSE CASE fieldtype = "rho" -> Returned(Apply(f, {"rho"}, cpu))
               [] fieldtype = "J" -> Returned(Apply(f, {"Jr", "Jt", "Jz"}, cpu))
               [] OTHER -> Raise("ValueError", f)

\* EnvelopeInterpolationGrid.divide_by_volume_and_e0.  On the GPU branch the
\* argument self.d_invvol / epsilon_0 divides a device array by a Python
\* float, which device arrays do not support: the call ends with TypeError
\* before the kernel is launched.
EnvelopeInterpolationGrid_divide_by_volume_and_e0(use_cuda, invvol, fieldtype, f) ==
    LET cpu(arr) == TimesInvvolOverE0(arr, invvol)
    IN  IF use_cuda
        THEN CASE fieldtype = "chi" -> Raise("TypeError", f)
               [] OTHER -> Raise("ValueError", f)
        ELSE CASE fieldtype = "chi" -> Returned(Apply(f, {"chi"}, cpu))
               [] OTHER -> Raise("ValueError", f)

\* the array attributes that are the left operand of *= on the CPU branch
\* of the volume division
InPlaceOperands(cls, fieldtype) ==
    CASE cls = "field" /\ fieldtype = "rho" -> {"rho"}
      [] cls = "field" /\ fieldtype = "J" -> {"Jr", "Jt", "Jz"}
      [] cls = "envelope" /\ fieldtype = "chi" -> {"chi"}
      [] OTHER -> {}

----------------------------------------------------------------------------
(* Residency transfers *)

\* cuda.to_device(arr) over the array attributes in source order; without a
\* usable CUDA device the first call raises and nothing is assigned
send_fields_to_gpu(cls, res, cuda) ==
    IF cuda
    THEN [exc |-> "none", resident |-> [n \in DOMAIN res |-> "device"]]
    ELSE [exc |-> "CudaSupportError", resident |-> res]

\* variant: receive_fields_from_gpu skipping the arrays that are on the host
RECURSIVE copy_to_host_from_SkipsHost(_, _, _)
copy_to_host_from_SkipsHost(names, k, res) ==
    IF k > Len(names) THEN [exc |-> "none", resident |-> res]
    ELSE copy_to_host_from_SkipsHost(names, k + 1, [res EXCEPT ![names[k]] = "host"])

\* arr.copy_to_host() over the array attributes in source order, from the
\* k-th on; an ndarray has no copy_to_host attribute
RECURSIVE copy_to_host_from(_, _, _)
copy_to_host_from(names, k, res) ==
    IF k > Len(names) THEN [exc |-> "none", resident |-> res]
    ELSE IF res[names[k]] = "host" THEN [exc |-> "AttributeError", resident |-> res]
    ELSE copy_to_host_from(names, k + 1, [res EXCEPT ![names[k]] = "host"])

receive_fields_from_gpu(cls, res) == copy_to_host_from(ArraysOf(cls), 1, res)

----------------------------------------------------------------------------
(* The grid object as a state machine *)

Classes == {"base", "field", "envelope"}
SizeArgs == {-1, 0} \cup (1 .. MaxNz)
RadialSizeArgs == {-1, 0} \cup (1 .. MaxNr)
ZmaxArgs == {-1, 0, 1, 3}
RmaxArgs == {-2, 0, 1, 2}
FieldTypeArgs == {"E", "B", "J", "rho", "chi", "chi_a", "a"}
Patterns == {"ones", "ramp"}

\* position of an array attribute in the allocation order of its class
RECURSIVE IndexOf(_, _, _)
IndexOf(names, n, k) ==
    IF k > Len(names) THEN 0
    ELSE IF names[k] = n THEN k ELSE IndexOf(names, n, k + 1)

\* content written by the solver and the deposition (external to the grid)
\* into entry (i, j) of the k-th array
PatternValue(p, k, i, j) ==
    IF p = "ones" THEN CInt(1, 0) ELSE CInt(k + i + 2 * j, i - 2 * j - k)

NoCall == [op |-> "none", arg |-> "none"]

\* grid = InterpolationGrid(...) | FieldInterpolationGrid(...) |
\*        EnvelopeInterpolationGrid(...) : the state the call leaves
NewGrid(cls, Nz, Nr, zmin, zmax, rmax, use_cuda, cuda) ==
    LET r == SubGrid_init(cls, Nz, Nr, 0, zmin, zmax, rmax, use_cuda, cuda)
    IN  [lastcall |-> [op |-> "__init__",
                       arg |-> <<cls, Nz, Nr, zmin, zmax, rmax, use_cuda>>],
         raised |-> r.exc,
         obj |-> IF r.exc = "none" THEN cls ELSE "none",
         meta |-> r.meta,
         fields |-> r.fields,
         resident |-> [n \in DOMAIN r.fields |-> "host"]]

\* no gathering kernel is called
NoGather ==
    /\ kernel = "none"
    /\ kgrid = <<>> /\ karr = <<>> /\ kopt = <<>>
    /\ ptcl_x = <<>> /\ ptcl_y = <<>> /\ ptcl_z = <<>>
    /\ out = <<>> /\ proc = <<>> /\ scratch = <<>> /\ visits = <<>>
    /\ graised = "none"
    /\ calls = <<>>

\* Before any constructor call
ConstructInit ==
    /\ NoGather /\ NoHankel
    /\ cuda_installed \in BOOLEAN
    /\ obj = "none"
    /\ meta = NoMeta
    /\ fields = <<>>
    /\ resident = <<>>
    /\ lastcall = NoCall
    /\ raised = "none"
    /\ writes = 0
    /\ divs = 0

Construct(cls, Nz, Nr, zmin, zmax, rmax, use_cuda) ==
    LET g == NewGrid(cls, Nz, Nr, zmin, zmax, rmax, use_cuda, cuda_installed)
    IN  /\ obj = "none"
        /\ raised = "none"
        /\ lastcall' = g.lastcall
        /\ raised' = g.raised
        /\ obj' = g.obj
        /\ meta' = g.meta
        /\ fields' = g.fields
        /\ resident' = g.resident
        /\ UNCHANGED <<gathervars, hankelvars>> /\ UNCHANGED <<cuda_installed, writes, divs>>

\* del grid
Discard ==
    /\ obj # "none"
    /\ obj' = "none"
    /\ meta' = NoMeta
    /\ fields' = <<>>
    /\ resident' = <<>>
    /\ lastcall' = NoCall
    /\ raised' = "none"
    /\ UNCHANGED <<gathervars, hankelvars>> /\ UNCHANGED <<cuda_installed, writes, divs>>

ConstructNext ==
    \/ \E cls \in Classes, Nz \in SizeArgs, Nr \in RadialSizeArgs,
          zmax \in ZmaxArgs, rmax \in RmaxArgs, use_cuda \in BOOLEAN :
          Construct(cls, Nz, Nr, 0, zmax, rmax, use_cuda)
    \/ Discard

ConstructSpec == ConstructInit /\ [][ConstructNext]_vars

\* A field or envelope grid right after a successful construction
GridInit ==
    /\ NoGather /\ NoHankel
    /\ cuda_installed \in BOOLEAN
    /\ \E cls \in {"field", "envelope"}, use_cuda \in BOOLEAN :
          LET g == NewGrid(cls, MaxNz, MaxNr, 0, 3, 2, use_cuda, cuda_installed)
          IN  /\ g.raised = "none"
              /\ lastcall = g.lastcall
              /\ raised = g.raised
              /\ obj = g.obj
              /\ meta = g.meta
              /\ fields = g.fields
              /\ resident = g.resident
    /\ writes = 0
    /\ divs = 0

\* the spectral solver and the deposition overwrite the arrays of the grid
Deposit(p) ==
    /\ writes < MaxWrites
    /\ writes' = writes + 1
    /\ fields' = [n \in DOMAIN fields |->
                    [c \in DOMAIN fields[n] |->
                       PatternValue(p, IndexOf(ArraysOf(obj), n, 1), c[1], c[2])]]
    /\ lastcall' = [op |-> "deposit", arg |-> p]
    /\ raised' = "none"
    /\ UNCHANGED <<gathervars, hankelvars>> /\ UNCHANGED <<cuda_installed, obj, meta, resident, divs>>

\* grid.erase(fieldtype)
Erase(fieldtype) ==
    LET r == IF obj = "field"
             THEN FieldInterpolationGrid_erase(meta.use_cuda, fieldtype, fields)
             ELSE EnvelopeInterpolationGrid_erase(meta.use_cuda, fieldtype, fields)
    IN  /\ lastcall' = [op |-> "erase", arg |-> fieldtype]
        /\ raised' = r.exc
        /\ fields' = r.fields
        /\ UNCHANGED <<gathervars, hankelvars>> /\ UNCHANGED <<cuda_installed, obj, meta, resident, writes, divs>>

\* grid.divide_by_volume(fieldtype) on a field grid,
\* grid.divide_by_volume_and_e0(fieldtype) on an envelope grid.  On the CPU
\* branch an in-place product whose left operand is a device array either
\* raises TypeError or yields a host array, depending on the numba version
\* (inplace_ok).
Divide(fieldtype, inplace_ok) ==
    LET r == IF obj = "field"
             THEN FieldInterpolationGrid_divide_by_volume(
                      meta.use_cuda, meta.invvol, fieldtype, fields)
             ELSE EnvelopeInterpolationGrid_divide_by_volume_and_e0(
                      meta.use_cuda, meta.invvol, fieldtype, fields)
        touched == InPlaceOperands(obj, fieldtype)
        ondevice == ~meta.use_cuda /\ \E n \in touched : resident[n] = "device"
    IN  /\ divs < MaxDivs
        /\ divs' = divs + 1
        /\ ondevice \/ inplace_ok
        /\ lastcall' = [op |-> "divide", arg |-> fieldtype]
        /\ IF ondevice /\ ~inplace_ok
           THEN /\ raised' = "TypeError"
                /\ UNCHANGED <<fields, resident>>
           ELSE /\ raised' = r.exc
                /\ fields' = r.fields
                /\ resident' = [n \in DOMAIN resident |->
                                  IF ~meta.use_cuda /\ n \in touched
                                  THEN "host" ELSE resident[n]]
        /\ UNCHANGED <<gathervars, hankelvars>> /\ UNCHANGED <<cuda_installed, obj, meta, writes>>

\* grid.send_fields_to_gpu()
Send ==
    LET r == send_fields_to_gpu(obj, resident, cuda_installed)
    IN  /\ lastcall' = [op |-> "send", arg |-> "none"]
        /\ raised' = r.exc
        /\ resident' = r.resident
        /\ UNCHANGED <<gathervars, hankelvars>> /\ UNCHANGED <<cuda_installed, obj, meta, fields, writes, divs>>

\* grid.receive_fields_from_gpu()
Receive ==
    LET r == receive_fields_from_gpu(obj, resident)
    IN  /\ lastcall' = [op |-> "receive", arg |-> "none"]
        /\ raised' = r.exc
        /\ resident' = r.resident
        /\ UNCHANGED <<gathervars, hankelvars>> /\ UNCHANGED <<cuda_installed, obj, meta, fields, writes, divs>>

GridNext ==
    \/ \E p \in Patterns : Deposit(p)
    \/ \E fieldtype \in FieldTypeArgs : Erase(fieldtype)
    \/ \E fieldtype \in FieldTypeArgs, inplace_ok \in BOOLEAN : Divide(fieldtype, inplace_ok)
    \/ Send
    \/ Receive

Spec == GridInit /\ [][GridNext]_vars

----------------------------------------------------------------------------
(* Properties of the grid operations *)

\* the arrays of a field group, as the documentation of erase names them
GroupArrays(cls, fieldtype) ==
    CASE cls = "field" /\ fieldtype = "E" -> {"Er", "Et", "Ez"}
      [] cls = "field" /\ fieldtype = "B" -> {"Br", "Bt", "Bz"}
      [] cls = "field" /\ fieldtype = "J" -> {"Jr", "Jt", "Jz"}
      [] cls = "field" /\ fieldtype = "rho" -> {"rho"}
      [] cls = "envelope" /\ fieldtype = "chi" -> {"chi"}
      [] cls = "envelope" /\ fieldtype = "chi_a" -> {"chi_a"}
      [] OTHER -> {}

AllZero(arr) == \A c \in DOMAIN arr : arr[c] = CZero
SomeNonZero(arr) == \E c \in DOMAIN arr : arr[c] # CZero

\* C4: after erase(group) with a recognized group name the call has returned
\* and every entry of every array of the group is exactly 0, whatever the
\* arrays held before.
C4_EraseZeroes ==
    (lastcall.op = "erase" /\ GroupArrays(obj, lastcall.arg) # {})
        => /\ raised = "none"
           /\ \A n \in GroupArrays(obj, lastcall.arg) :
                 /\ DOMAIN fields[n] = Cells(meta.Nz, meta.Nr)
                 /\ AllZero(fields[n])

\* erase('E') has just returned on a grid whose arrays had been written
C4_Witness ==
    /\ obj = "field" /\ lastcall = [op |-> "erase", arg |-> "E"]
    /\ writes > 0 /\ SomeNonZero(fields["Br"]) /\ AllZero(fields["Er"])

\* the names the specification lists for an operation of a grid class
SpecAccepted(cls, op) ==
    CASE cls = "field" -> {"E", "B", "J", "rho"}
      [] cls = "envelope" /\ op = "erase" -> {"chi", "chi_a"}
      [] cls = "envelope" /\ op = "divide" -> {"chi"}
      [] OTHER -> {}

\* C5: erase and the volume division called with an unrecognized group name
\* raise ValueError on the CPU and on the accelerator branch, and leave every
\* field array as it was before the call.
C5_UnrecognizedRaises ==
    [][(lastcall'.op \in {"erase", "divide"}
          /\ lastcall'.arg \notin SpecAccepted(obj, lastcall'.op))
         => (raised' = "ValueError" /\ fields' = fields)]_vars

\* an unrecognized name was rejected on the accelerator branch of the volume
\* division, with written arrays
C5_Witness ==
    /\ lastcall = [op |-> "divide", arg |-> "a"] /\ raised = "ValueError"
    /\ meta.use_cuda /\ writes > 0
    /\ \A n \in DOMAIN fields : SomeNonZero(fields[n])

\* C6 as stated: erase and divide_by_volume accept the same closed set
\* {E, B, J, rho} on a field grid; on an envelope grid erase accepts exactly
\* {chi, chi_a} and the volume division exactly {chi}.
C6_Original ==
    lastcall.op \in {"erase", "divide"}
        => (raised = "ValueError" <=> lastcall.arg \notin SpecAccepted(obj, lastcall.op))

\* the names the operations accept
Accepted(cls, op) ==
    CASE cls = "field" /\ op = "erase" -> {"E", "B", "J", "rho"}
      [] cls = "field" /\ op = "divide" -> {"J", "rho"}
      [] cls = "envelope" /\ op = "erase" -> {"chi", "chi_a"}
      [] cls = "envelope" /\ op = "divide" -> {"chi"}
      [] OTHER -> {}

\* C6 amended: the accepted sets are closed; on a field grid erase accepts
\* exactly {E, B, J, rho} but divide_by_volume accepts exactly {J, rho} and
\* rejects E and B; on an envelope grid erase accepts exactly {chi, chi_a}
\* and the volume division exactly {chi}.
C6_AcceptedNames ==
    lastcall.op \in {"erase", "divide"}
        => (raised = "ValueError" <=> lastcall.arg \notin Accepted(obj, lastcall.op))

\* divide_by_volume('E') was rejected on a field grid
C6_Witness ==
    /\ obj = "field" /\ lastcall = [op |-> "divide", arg |-> "E"]
    /\ raised = "ValueError"

\* C7: a successful divide_by_volume(group) on a field grid replaces entry
\* (i,j) of every array of the group by its old value times invvol[j] and
\* leaves the arrays of the other groups unchanged; an entry that was 1
\* becomes exactly invvol[j].
C7_DivideByVolume ==
    [][(obj = "field" /\ lastcall'.op = "divide" /\ raised' = "none")
         => \A n \in DOMAIN fields : \A c \in DOMAIN fields[n] :
              LET old == fields[n][c]
                  new == fields'[n][c]
                  w == meta.invvol[c[2]]
              IN  IF n \in GroupArrays("field", lastcall'.arg)
                  THEN /\ new.re = RMul(old.re, w)
                       /\ new.im = RMul(old.im, w)
                       /\ new.e0 = old.e0
                       /\ ~CIsZero(old) => new.pi = old.pi + 1
                       /\ old = CInt(1, 0) => new = CVal(w, RInt(0), 1, 0)
                  ELSE new = old]_vars

\* divide_by_volume('J') has just returned on arrays that were all ones:
\* Jr holds invvol[j] in every row and the other groups still hold ones
C7_Witness ==
    /\ obj = "field" /\ lastcall = [op |-> "divide", arg |-> "J"] /\ raised = "none"
    /\ \A c \in DOMAIN fields["Jr"] :
          fields["Jr"][c] = CVal(meta.invvol[c[2]], RInt(0), 1, 0)
    /\ meta.invvol[0] # meta.invvol[1]
    /\ \A c \in DOMAIN fields["Er"] : fields["Er"][c] = CInt(1, 0)

\* the arguments of the last constructor call
ArgCls == lastcall.arg[1]
ArgNz == lastcall.arg[2]
ArgNr == lastcall.arg[3]
ArgZmin == lastcall.arg[4]
ArgZmax == lastcall.arg[5]
ArgRmax == lastcall.arg[6]
ArgUseCuda == lastcall.arg[7]

\* C8 as stated: constructing a grid with Nz<=0, Nr<=0, zmax<=zmin or rmax<=0
\* fails at construction, so that no grid object with such parameters (with
\* non-positive dz, dr or invvol) is ever produced.
C8_Original ==
    lastcall.op = "__init__"
        => ((ArgNz <= 0 \/ ArgNr <= 0 \/ ArgZmax <= ArgZmin \/ ArgRmax <= 0)
               => (raised # "none" /\ obj = "none"))

\* C8 amended: the constructor makes no configuration check.  With Nz=0, Nr=0,
\* zmax=zmin or rmax=0 it fails with ZeroDivisionError; with Nz<0 or Nr<0 (and
\* none of these zero) the array allocation of a field or envelope grid fails
\* with ValueError unless the device copy of invvol failed first; in every
\* failing case no grid object is produced.  Otherwise, unless the device copy
\* of invvol fails, construction succeeds also for zmax<zmin and rmax<0 (and,
\* for the base class, for Nz<0 or Nr<0): dz has the sign of (zmax-zmin)/Nz,
\* dr the sign of rmax/Nr and every invvol[j] the sign of dz.
C8_ConstructionOutcome ==
    lastcall.op = "__init__" =>
      LET zero == ArgNz = 0 \/ ArgNr = 0 \/ ArgZmax = ArgZmin \/ ArgRmax = 0
          nodevice == ArgUseCuda /\ ~cuda_installed
          negdim == ArgCls # "base" /\ (ArgNz < 0 \/ ArgNr < 0)
      IN  /\ raised # "none" => obj = "none"
          /\ zero => raised = "ZeroDivisionError"
          /\ (~zero /\ nodevice) => raised = "CudaSupportError"
          /\ (~zero /\ ~nodevice /\ negdim) => raised = "ValueError"
          /\ (~zero /\ ~nodevice /\ ~negdim) =>
                /\ raised = "none" /\ obj = ArgCls
                /\ meta.Nz = ArgNz /\ meta.Nr = ArgNr
                /\ RPos(meta.dz) <=> ((ArgZmax - ArgZmin) * ArgNz > 0)
                /\ RPos(meta.dr) <=> (ArgRmax * ArgNr > 0)
                /\ \A j \in DOMAIN meta.invvol :
                      RPos(meta.invvol[j]) <=> RPos(meta.dz)

\* a field grid was produced from zmax < zmin: dz and invvol are negative
C8_Witness ==
    /\ obj = "field" /\ lastcall.op = "__init__" /\ ArgZmax < ArgZmin
    /\ RNeg(meta.dz) /\ RNeg(meta.invvol[0])

\* C9 as stated: with use_cuda=False the two transfer operations are no-ops:
\* no call fails and every field array is still the same host array.
C9_Original ==
    (~meta.use_cuda /\ lastcall.op \in {"send", "receive"})
        => (raised = "none" /\ \A n \in DOMAIN resident : resident[n] = "host")

\* C9 amended: the transfer operations do not consult use_cuda.  Whatever
\* use_cuda is, they never change the content of a field array, but
\* send_fields_to_gpu fails exactly when no CUDA device is usable and otherwise
\* leaves every array attribute a device array, and receive_fields_from_gpu
\* fails exactly when some array attribute is a host array and otherwise
\* leaves every array attribute a host array.
C9_Transfers ==
    [][/\ lastcall'.op \in {"send", "receive"} => fields' = fields
       /\ lastcall'.op = "send" =>
             /\ raised' = "none" <=> cuda_installed
             /\ raised' = "none" => \A n \in DOMAIN resident' : resident'[n] = "device"
             /\ raised' # "none" => resident' = resident
       /\ lastcall'.op = "receive" =>
             /\ raised' = "none" <=> \A n \in DOMAIN resident : resident[n] = "device"
             /\ raised' = "none" => \A n \in DOMAIN resident' : resident'[n] = "host"
      ]_vars

\* on a grid with use_cuda=False and written arrays, receive_fields_from_gpu
\* has just failed on host arrays
C9_Witness ==
    /\ ~meta.use_cuda /\ lastcall.op = "receive" /\ raised = "AttributeError"
    /\ writes > 0 /\ \A n \in DOMAIN resident : resident[n] = "host"

----------------------------------------------------------------------------
(* Field gathering: arithmetic *)

RNegate(a) == <<-a[1], a[2]>>
RLess(a, b) == a[1] * b[2] < b[1] * a[2]

\* int(math.floor( q ))
Floor(q) == q[1] \div q[2]

\* the n-th power of a rational, n >= 0
RECURSIVE RPow(_, _)
RPow(a, n) == IF n = 0 THEN RInt(1) ELSE RMul(a, RPow(a, n - 1))

\* math.sqrt on the squares of rationals (the particle positions of the model
\* are chosen with a rational radius)
ISqrt(n) == CHOOSE k \in 0 .. n : k * k = n
RSqrt(q) == <<ISqrt(q[1]), ISqrt(q[2])>>

\* complex numbers
CX(re, im) == [re |-> re, im |-> im]
XZero == CX(RInt(0), RInt(0))
XOne == CX(RInt(1), RInt(0))
XAdd(a, b) == CX(RAdd(a.re, b.re), RAdd(a.im, b.im))
XMul(a, b) == CX(RSub(RMul(a.re, b.re), RMul(a.im, b.im)),
                 RAdd(RMul(a.re, b.im), RMul(a.im, b.re)))
XScale(w, a) == CX(RMul(w, a.re), RMul(w, a.im))
XConj(a) == CX(a.re, RNegate(a.im))

\* z**m for an integer m and |z| = 1 (z**(-1) is the conjugate)
RECURSIVE XPow(_, _)
XPow(a, m) ==
    IF m = 0 THEN XOne
    ELSE IF m < 0 THEN XPow(XConj(a), -m)
    ELSE XMul(a, XPow(a, m - 1))

----------------------------------------------------------------------------
(* Field gathering: the per-particle computation of the kernels *)

\* (variant: the angle at rj = 0 taken along y instead of along x)
Cylindrical_AxisAlongY(xj, yj) ==
    LET rj == RSqrt(RAdd(RMul(xj, xj), RMul(yj, yj)))
    IN  IF ~RIsZero(rj)
        THEN [rj |-> rj, cos |-> RMul(xj, RDiv(RInt(1), rj)),
              sin |-> RMul(yj, RDiv(RInt(1), rj))]
        ELSE [rj |-> rj, cos |-> RInt(0), sin |-> RInt(1)]

\* rj, cos, sin of the cylindrical conversion
Cylindrical(xj, yj) ==
    LET rj == RSqrt(RAdd(RMul(xj, xj), RMul(yj, yj)))
    IN  IF ~RIsZero(rj)
        THEN [rj |-> rj, cos |-> RMul(xj, RDiv(RInt(1), rj)),
              sin |-> RMul(yj, RDiv(RInt(1), rj))]
        ELSE [rj |-> rj, cos |-> RInt(1), sin |-> RInt(0)]

\* exptheta_m1 = cos - 1.j*sin
ExpTheta1(cyl) == CX(cyl.cos, RNegate(cyl.sin))

\* invd*(pos - min) - 0.5 : position in the cell unit
CellCoordinate(invd, pos, min) == RSub(RMul(invd, RSub(pos, min)), Rat(1, 2))

\* (variant: the lower cell is the nearest cell)
LinearWeights_Nearest(cell) ==
    LET lower == Floor(RAdd(cell, Rat(1, 2)))
        upper == lower + 1
    IN  [lower |-> lower, upper |-> upper,
         S_lower |-> RSub(RInt(upper), cell),
         S_upper |-> RSub(cell, RInt(lower))]

\* index and linear weight of the lower and upper cell along one axis, before
\* the boundary conditions
LinearWeights(cell) ==
    LET lower == Floor(cell)
        upper == lower + 1
    IN  [lower |-> lower, upper |-> upper,
         S_lower |-> RSub(RInt(upper), cell),
         S_upper |-> RSub(cell, RInt(lower))]

\* (variant: the weight below the axis is dropped instead of being kept)
RadialBoundary_NoGuard(w, Nr) ==
    LET guarded == w.lower < 0
        lo == IF guarded THEN 0 ELSE w.lower
    IN  [ir_lower |-> IF lo > Nr - 1 THEN Nr - 1 ELSE lo,
         ir_upper |-> IF w.upper > Nr - 1 THEN Nr - 1 ELSE w.upper,
         Sr_lower |-> IF guarded THEN RInt(0) ELSE w.S_lower,
         Sr_upper |-> w.S_upper,
         Sr_guard |-> RInt(0)]

\* (variant: periodic in upper r, as the code is in z)
RadialBoundary_Periodic(w, Nr) ==
    LET guarded == w.lower < 0
        lo == IF guarded THEN 0 ELSE w.lower
    IN  [ir_lower |-> IF lo > Nr - 1 THEN lo - Nr ELSE lo,
         ir_upper |-> IF w.upper > Nr - 1 THEN w.upper - Nr ELSE w.upper,
         Sr_lower |-> IF guarded THEN RInt(0) ELSE w.S_lower,
         Sr_upper |-> w.S_upper,
         Sr_guard |-> IF guarded THEN w.S_lower ELSE RInt(0)]

\* guard cells in lower r, absorbing in upper r
RadialBoundary(w, Nr) ==
    LET guarded == w.lower < 0
        lo == IF guarded THEN 0 ELSE w.lower
    IN  [ir_lower |-> IF lo > Nr - 1 THEN Nr - 1 ELSE lo,
         ir_upper |-> IF w.upper > Nr - 1 THEN Nr - 1 ELSE w.upper,
         Sr_lower |-> IF guarded THEN RInt(0) ELSE w.S_lower,
         Sr_upper |-> w.S_upper,
         Sr_guard |-> IF guarded THEN w.S_lower ELSE RInt(0)]

\* (variant: absorbing in z, as the code is in upper r)
WrapZ_Clamped(iz, Nz) ==
    IF iz < 0 THEN 0 ELSE IF iz > Nz - 1 THEN Nz - 1 ELSE iz

\* periodic boundaries in z: one index
WrapZ(iz, Nz) ==
    LET up == IF iz < 0 THEN iz + Nz ELSE iz
    IN  IF up > Nz - 1 THEN up - Nz ELSE up

LongitudinalBoundary(w, Nz) ==
    [iz_lower |-> WrapZ(w.lower, Nz), iz_upper |-> WrapZ(w.upper, Nz),
     Sz_lower |-> w.S_lower, Sz_upper |-> w.S_upper]

\* the stencil of the linear kernels: indices after the boundary conditions
\* and the six precalculated shapes
LinearStencil(rj, zj, g) ==
    LET r_cell == CellCoordinate(g.invdr, rj, g.rmin)
        z_cell == CellCoordinate(g.invdz, zj, g.zmin)
        r == RadialBoundary(LinearWeights(r_cell), g.Nr)
        z == LongitudinalBoundary(LinearWeights(z_cell), g.Nz)
    IN  [iz_lower |-> z.iz_lower, iz_upper |-> z.iz_upper,
         ir_lower |-> r.ir_lower, ir_upper |-> r.ir_upper,
         S_ll |-> RMul(z.Sz_lower, r.Sr_lower),
         S_lu |-> RMul(z.Sz_lower, r.Sr_upper),
         S_ul |-> RMul(z.Sz_upper, r.Sr_lower),
         S_uu |-> RMul(z.Sz_upper, r.Sr_upper),
         S_lg |-> RMul(z.Sz_lower, r.Sr_guard),
         S_ug |-> RMul(z.Sz_upper, r.Sr_guard)]

\* the four cubic shape factors for the local coordinate t = cell - lowest
\* (variant: the last weight without its minus sign)
CubicShape_Unsigned(t) ==
    LET c1 == RSub(t, RInt(1))
        c2 == RSub(RInt(2), t)
    IN  <<RMul(Rat(-1, 6), RPow(RSub(t, RInt(2)), 3)),
          RMul(Rat(1, 6), RAdd(RSub(RMul(RInt(3), RPow(c1, 3)),
                                    RMul(RInt(6), RPow(c1, 2))), RInt(4))),
          RMul(Rat(1, 6), RAdd(RSub(RMul(RInt(3), RPow(c2, 3)),
                                    RMul(RInt(6), RPow(c2, 2))), RInt(4))),
          RMul(Rat(1, 6), RPow(RSub(RInt(1), t), 3))>>

CubicShape(t) ==
    LET c1 == RSub(t, RInt(1))
        c2 == RSub(RInt(2), t)
    IN  <<RMul(Rat(-1, 6), RPow(RSub(t, RInt(2)), 3)),
          RMul(Rat(1, 6), RAdd(RSub(RMul(RInt(3), RPow(c1, 3)),
                                    RMul(RInt(6), RPow(c1, 2))), RInt(4))),
          RMul(Rat(1, 6), RAdd(RSub(RMul(RInt(3), RPow(c2, 3)),
                                    RMul(RInt(6), RPow(c2, 2))), RInt(4))),
          RMul(Rat(-1, 6), RPow(RSub(RInt(1), t), 3))>>

\* lowest index of the cubic stencil along one axis
CubicLowest(cell) == Floor(cell) - 1

\* a grid array read at [iz, ir]; a negative index counts from the end
At(arr, iz, ir, g) ==
    arr[<<IF iz < 0 THEN iz + g.Nz ELSE iz, IF ir < 0 THEN ir + g.Nr ELSE ir>>]

----------------------------------------------------------------------------
(* The inline functions of fbpic/particles/gathering/inline_functions.py,  *)
(* which the kernels call for each azimuthal mode                          *)

\* parity of mode m under the reflection r -> -r, applied to the guard weight
FlipFactor(m) == IF m % 2 = 0 THEN RInt(1) ELSE RInt(-1)

\* one grid array interpolated with the linear stencil; the guard weight is
\* folded back on the first radial cell with the parity of the mode
LinearInterpolate(m, arr, st, g) ==
    LET ll == XScale(st.S_ll, At(arr, st.iz_lower, st.ir_lower, g))
        lu == XScale(st.S_lu, At(arr, st.iz_lower, st.ir_upper, g))
        ul == XScale(st.S_ul, At(arr, st.iz_upper, st.ir_lower, g))
        uu == XScale(st.S_uu, At(arr, st.iz_upper, st.ir_upper, g))
        lg == XScale(RMul(FlipFactor(m), st.S_lg), At(arr, st.iz_lower, 0, g))
        ug == XScale(RMul(FlipFactor(m), st.S_ug), At(arr, st.iz_upper, 0, g))
    IN  XAdd(XAdd(XAdd(ll, lu), XAdd(ul, uu)), XAdd(lg, ug))

\* add_linear_gather_for_mode: F = <<Fr, Ft, Fz>> plus the real part of the
\* interpolated mode times its phase factor
add_linear_gather_for_mode(m, F, exptheta_m, Fr_grid, Ft_grid, Fz_grid, st, g) ==
    <<RAdd(F[1], XMul(LinearInterpolate(m, Fr_grid, st, g), exptheta_m).re),
      RAdd(F[2], XMul(LinearInterpolate(m, Ft_grid, st, g), exptheta_m).re),
      RAdd(F[3], XMul(LinearInterpolate(m, Fz_grid, st, g), exptheta_m).re)>>

\* radial index of a cubic support point: clamped to [0, Nr-1]
ClampR(ir, Nr) == IF ir < 0 THEN 0 ELSE IF ir > Nr - 1 THEN Nr - 1 ELSE ir

\* one support point (kr, kz) of the 4 x 4 cubic stencil: weight times value
CubicTerm(arr, ir_lowest, iz_lowest, Sr, Sz, g, kr, kz) ==
    XScale(RMul(Sr[kr], Sz[kz]),
           At(arr, WrapZ(iz_lowest + kz - 1, g.Nz),
              ClampR(ir_lowest + kr - 1, g.Nr), g))

\* the four support points of the radial index kr
CubicRow(arr, ir_lowest, iz_lowest, Sr, Sz, g, kr) ==
    XAdd(XAdd(CubicTerm(arr, ir_lowest, iz_lowest, Sr, Sz, g, kr, 1),
              CubicTerm(arr, ir_lowest, iz_lowest, Sr, Sz, g, kr, 2)),
         XAdd(CubicTerm(arr, ir_lowest, iz_lowest, Sr, Sz, g, kr, 3),
              CubicTerm(arr, ir_lowest, iz_lowest, Sr, Sz, g, kr, 4)))

\* one grid array interpolated with the cubic stencil
CubicInterpolate(arr, ir_lowest, iz_lowest, Sr, Sz, g) ==
    XAdd(XAdd(CubicRow(arr, ir_lowest, iz_lowest, Sr, Sz, g, 1),
              CubicRow(arr, ir_lowest, iz_lowest, Sr, Sz, g, 2)),
         XAdd(CubicRow(arr, ir_lowest, iz_lowest, Sr, Sz, g, 3),
              CubicRow(arr, ir_lowest, iz_lowest, Sr, Sz, g, 4)))

\* add_cubic_gather_for_mode
add_cubic_gather_for_mode(m, F, exptheta_m, Fr_grid, Ft_grid, Fz_grid, ir_lowest, iz_lowest, Sr, Sz, g) ==
    <<RAdd(F[1], XMul(CubicInterpolate(Fr_grid, ir_lowest, iz_lowest, Sr, Sz, g),
                      exptheta_m).re),
      RAdd(F[2], XMul(CubicInterpolate(Ft_grid, ir_lowest, iz_lowest, Sr, Sz, g),
                      exptheta_m).re),
      RAdd(F[3], XMul(CubicInterpolate(Fz_grid, ir_lowest, iz_lowest, Sr, Sz, g),
                      exptheta_m).re)>>

\* add_linear_envelope_gather_for_mode: the complex sums
\* <<F, Fr, Ft, Fz, dtF>> plus the interpolated mode times its phase factor
add_linear_envelope_gather_for_mode(m, F, exptheta_m, a_m, grad_a_r_m, grad_a_t_m, grad_a_z_m, dta_m, st, g) ==
    <<XAdd(F[1], XMul(LinearInterpolate(m, a_m, st, g), exptheta_m)),
      XAdd(F[2], XMul(LinearInterpolate(m, grad_a_r_m, st, g), exptheta_m)),
      XAdd(F[3], XMul(LinearInterpolate(m, grad_a_t_m, st, g), exptheta_m)),
      XAdd(F[4], XMul(LinearInterpolate(m, grad_a_z_m, st, g), exptheta_m)),
      XAdd(F[5], XMul(LinearInterpolate(m, dta_m, st, g), exptheta_m))>>

\* add_cubic_envelope_gather_for_mode
add_cubic_envelope_gather_for_mode(m, F, exptheta_m, a_m, grad_a_r_m, grad_a_t_m, grad_a_z_m, dta_m, ir_lowest, iz_lowest, Sr, Sz, g) ==
    <<XAdd(F[1], XMul(CubicInterpolate(a_m, ir_lowest, iz_lowest, Sr, Sz, g), exptheta_m)),
      XAdd(F[2], XMul(CubicInterpolate(grad_a_r_m, ir_lowest, iz_lowest, Sr, Sz, g), exptheta_m)),
      XAdd(F[3], XMul(CubicInterpolate(grad_a_t_m, ir_lowest, iz_lowest, Sr, Sz, g), exptheta_m)),
      XAdd(F[4], XMul(CubicInterpolate(grad_a_z_m, ir_lowest, iz_lowest, Sr, Sz, g), exptheta_m)),
      XAdd(F[5], XMul(CubicInterpolate(dta_m, ir_lowest, iz_lowest, Sr, Sz, g), exptheta_m))>>

----------------------------------------------------------------------------
(* The bodies of the gathering kernels for one particle *)

RZero3 == <<RInt(0), RInt(0), RInt(0)>>

\* Convert to Cartesian coordinates: the three values written to the
\* particle arrays
ToCartesian(cyl, F) ==
    <<RSub(RMul(cyl.cos, F[1]), RMul(cyl.sin, F[2])),
      RAdd(RMul(cyl.sin, F[1]), RMul(cyl.cos, F[2])),
      F[3]>>

\* gather_field_numba_linear: E-Field or B-Field section; v is "E" or "B" and
\* a the kernel arguments Er_m0, ..., Bz_m1
LinearFieldSection(v, cyl, st, a, g) ==
    LET grid(c, m) == IF v = "E"
                      THEN (IF m = 0
                            THEN (CASE c = 1 -> a.Er_m0 [] c = 2 -> a.Et_m0 [] OTHER -> a.Ez_m0)
                            ELSE (CASE c = 1 -> a.Er_m1 [] c = 2 -> a.Et_m1 [] OTHER -> a.Ez_m1))
                      ELSE (IF m = 0
                            THEN (CASE c = 1 -> a.Br_m0 [] c = 2 -> a.Bt_m0 [] OTHER -> a.Bz_m0)
                            ELSE (CASE c = 1 -> a.Br_m1 [] c = 2 -> a.Bt_m1 [] OTHER -> a.Bz_m1))
        F0 == add_linear_gather_for_mode(0, RZero3, XOne,
                                         grid(1, 0), grid(2, 0), grid(3, 0), st, g)
        F1 == add_linear_gather_for_mode(1, F0, ExpTheta1(cyl),
                                         grid(1, 1), grid(2, 1), grid(3, 1), st, g)
    IN  ToCartesian(cyl, F1)

\* gather_field_numba_cubic: E-Field or B-Field section, reading the shape
\* factors from the scratch arrays Sr, Sz
CubicFieldSection(v, cyl, ir_lowest, iz_lowest, Sr, Sz, a, g) ==
    LET grid(c, m) == IF v = "E"
                      THEN (IF m = 0
                            THEN (CASE c = 1 -> a.Er_m0 [] c = 2 -> a.Et_m0 [] OTHER -> a.Ez_m0)
                            ELSE (CASE c = 1 -> a.Er_m1 [] c = 2 -> a.Et_m1 [] OTHER -> a.Ez_m1))
                      ELSE (IF m = 0
                            THEN (CASE c = 1 -> a.Br_m0 [] c = 2 -> a.Bt_m0 [] OTHER -> a.Bz_m0)
                            ELSE (CASE c = 1 -> a.Br_m1 [] c = 2 -> a.Bt_m1 [] OTHER -> a.Bz_m1))
        F0 == add_cubic_gather_for_mode(0, RZero3, XOne,
                                        grid(1, 0), grid(2, 0), grid(3, 0),
                                        ir_lowest, iz_lowest, Sr, Sz, g)
        F1 == add_cubic_gather_for_mode(1, F0, ExpTheta1(cyl),
                                        grid(1, 1), grid(2, 1), grid(3, 1),
                                        ir_lowest, iz_lowest, Sr, Sz, g)
    IN  ToCartesian(cyl, F1)

\* t[k] for a tuple t and a 0-based index k; a negative index counts from
\* the end, an index out of range raises IndexError
TupleIndexOk(t, k) == -Len(t) <= k /\ k < Len(t)
TupleGet(t, k) == IF k < 0 THEN t[Len(t) + k + 1] ELSE t[k + 1]

XZero5 == <<XZero, XZero, XZero, XZero, XZero>>

\* gather_envelope_field_numba_linear: the loop over the modes, from the
\* 0-based position it on; a holds the tuple arguments
RECURSIVE LinearEnvelopeSums(_, _, _, _, _, _)
LinearEnvelopeSums(it, F, cyl, st, a, g) ==
    IF it >= Len(a.m_tuple) THEN F
    ELSE LET m == TupleGet(a.m_tuple, it)
             exptheta_m == XPow(ExpTheta1(cyl), m)
         IN  LinearEnvelopeSums(it + 1,
                 add_linear_envelope_gather_for_mode(m, F, exptheta_m,
                     TupleGet(a.a_tuple, it), TupleGet(a.grad_a_r_tuple, it),
                     TupleGet(a.grad_a_t_tuple, it), TupleGet(a.grad_a_z_tuple, it),
                     TupleGet(a.dta_tuple, it), st, g),
                 cyl, st, a, g)

\* gather_envelope_field_numba_cubic: the loop "for m in m_tuple", from the
\* 0-based position it on; the arrays are read at index m of their tuples
RECURSIVE CubicEnvelopeSums(_, _, _, _, _, _, _, _, _)
CubicEnvelopeSums(it, F, cyl, ir_lowest, iz_lowest, Sr, Sz, a, g) ==
    IF it >= Len(a.m_tuple) THEN [exc |-> "none", F |-> F]
    ELSE LET m == TupleGet(a.m_tuple, it)
             exptheta_m == XPow(ExpTheta1(cyl), m)
         IN  IF ~TupleIndexOk(a.a_tuple, m) THEN [exc |-> "IndexError", F |-> F]
             ELSE CubicEnvelopeSums(it + 1,
                      add_cubic_envelope_gather_for_mode(m, F, exptheta_m,
                          TupleGet(a.a_tuple, m), TupleGet(a.grad_a_r_tuple, m),
                          TupleGet(a.grad_a_t_tuple, m), TupleGet(a.grad_a_z_tuple, m),
                          TupleGet(a.dta_tuple, m), ir_lowest, iz_lowest, Sr, Sz, g),
                      cyl, ir_lowest, iz_lowest, Sr, Sz, a, g)

\* (variant: without the line dtF = 0.5 * dt * dtF + F)
EnvelopeValues_NoDelay(cyl, S, dt) ==
    LET F == S[1]
        Fx == XAdd(XScale(cyl.cos, S[2]), XScale(RNegate(cyl.sin), S[3]))
        Fy == XAdd(XScale(cyl.sin, S[2]), XScale(cyl.cos, S[3]))
    IN  [F |-> XMul(F, XConj(F)),
         Fx |-> RMul(RInt(2), XMul(Fx, XConj(F)).re),
         Fy |-> RMul(RInt(2), XMul(Fy, XConj(F)).re),
         Fz |-> RMul(RInt(2), XMul(S[4], XConj(F)).re),
         dtF |-> XMul(S[5], XConj(S[5]))]

\* from the mode sums <<F, Fr, Ft, Fz, dtF>> to F*conj(F), the three
\* components 2*Re(Fx*conj(F)), and dtF*conj(dtF) for dtF = 0.5*dt*dtF + F
EnvelopeValues(cyl, S, dt) ==
    LET F == S[1]
        Fx == XAdd(XScale(cyl.cos, S[2]), XScale(RNegate(cyl.sin), S[3]))
        Fy == XAdd(XScale(cyl.sin, S[2]), XScale(cyl.cos, S[3]))
        dtF == XAdd(XScale(RMul(Rat(1, 2), dt), S[5]), F)
    IN  [F |-> XMul(F, XConj(F)),
         Fx |-> RMul(RInt(2), XMul(Fx, XConj(F)).re),
         Fy |-> RMul(RInt(2), XMul(Fy, XConj(F)).re),
         Fz |-> RMul(RInt(2), XMul(S[4], XConj(F)).re),
         dtF |-> XMul(dtF, XConj(dtF))]

RHalf(a) == RMul(Rat(1, 2), a)

\* (variant: the averaging branch without the factor 0.5)
EnvelopeRegister_NoHalf(averaging, old, v) ==
    IF averaging
    THEN [a2 |-> RAdd(old.a2, v.F.re),
          grad_a2_x |-> RAdd(old.grad_a2_x, v.Fx),
          grad_a2_y |-> RAdd(old.grad_a2_y, v.Fy),
          grad_a2_z |-> RAdd(old.grad_a2_z, v.Fz),
          a2_delayed |-> RAdd(old.a2_delayed, v.F.re)]
    ELSE [a2 |-> v.F.re,
          grad_a2_x |-> v.Fx,
          grad_a2_y |-> v.Fy,
          grad_a2_z |-> v.Fz,
          a2_delayed |-> v.dtF.re]

\* (variant: the new values are stored whatever averaging is)
EnvelopeRegister_Overwrite(averaging, old, v) ==
    [a2 |-> v.F.re,
     grad_a2_x |-> v.Fx,
     grad_a2_y |-> v.Fy,
     grad_a2_z |-> v.Fz,
     a2_delayed |-> IF averaging THEN v.F.re ELSE v.dtF.re]

\* Register in the particle arrays: the five values stored at index i, from
\* the five values old stored there before
EnvelopeRegister(averaging, old, v) ==
    IF averaging
    THEN [a2 |-> RHalf(RAdd(old.a2, v.F.re)),
          grad_a2_x |-> RHalf(RAdd(old.grad_a2_x, v.Fx)),
          grad_a2_y |-> RHalf(RAdd(old.grad_a2_y, v.Fy)),
          grad_a2_z |-> RHalf(RAdd(old.grad_a2_z, v.Fz)),
          a2_delayed |-> RHalf(RAdd(old.a2_delayed, v.F.re))]
    ELSE [a2 |-> v.F.re,
          grad_a2_x |-> v.Fx,
          grad_a2_y |-> v.Fy,
          grad_a2_z |-> v.Fz,
          a2_delayed |-> v.dtF.re]

----------------------------------------------------------------------------
(* One call of a gathering kernel: arguments *)

Kernels == {"field_linear", "field_cubic", "env_linear", "env_cubic"}
CubicKernels == {"field_cubic", "env_cubic"}
FieldKernels == {"field_linear", "field_cubic"}
FieldOutputs == {"Ex", "Ey", "Ez", "Bx", "By", "Bz"}
EnvelopeOutputs == {"a2", "grad_a2_x", "grad_a2_y", "grad_a2_z", "a2_delayed"}
FieldGridArgs == {"Er_m0", "Et_m0", "Ez_m0", "Er_m1", "Et_m1", "Ez_m1",
                  "Br_m0", "Bt_m0", "Bz_m0", "Br_m1", "Bt_m1", "Bz_m1"}

ParticleIds == 0 .. NParticles - 1

\* invdz, zmin, Nz, invdr, rmin, Nr : a grid with dz = 1/2 and dr = 2
GatherGeometry ==
    [Nz |-> GatherNz, Nr |-> GatherNr, zmin |-> RInt(-1), invdz |-> RInt(2),
     rmin |-> RInt(0), invdr |-> Rat(1, 2)]

\* particle positions: on the axis; within half a radial cell of the axis and
\* in the first half z cell (guard weight, z stencil wraps); beyond the last
\* radial cell centre; in the last half z cell (z stencil wraps); outside the
\* radial bounds and below zmin; on a cell centre
Positions ==
    LET g == GatherGeometry
        dr == RDiv(RInt(1), g.invdr)
        dz == RDiv(RInt(1), g.invdz)
        zmax == RAdd(g.zmin, RMul(RInt(g.Nz), dz))
        zc(k) == RAdd(g.zmin, RMul(Rat(2 * k + 1, 2), dz))
    IN  << [x |-> RInt(0), y |-> RInt(0), z |-> zc(1)],
           [x |-> RMul(Rat(3, 20), dr), y |-> RMul(Rat(4, 20), dr),
            z |-> RAdd(g.zmin, RMul(Rat(1, 4), dz))],
           [x |-> RNegate(RMul(Rat(4 * g.Nr - 1, 4), dr)), y |-> RInt(0),
            z |-> RAdd(g.zmin, dz)],
           [x |-> RInt(0), y |-> dr, z |-> RSub(zmax, RMul(Rat(1, 4), dz))],
           [x |-> RMul(Rat(-4 * (g.Nr + 1), 5), dr),
            y |-> RMul(Rat(-3 * (g.Nr + 1), 5), dr),
            z |-> RSub(g.zmin, RMul(Rat(1, 2), dz))],
           [x |-> RMul(Rat(1, 2), dr), y |-> RInt(0), z |-> zc(0)] >>

\* the positions a kernel is called with: the cubic envelope kernel squares
\* sums of products of two cubic weights, so it is given the positions
\* whose exact values stay within the range of the integers
PositionsOf(k) ==
    IF k = "env_cubic" THEN <<Positions[1], Positions[5], Positions[6]>>
    ELSE Positions

\* the particle arrays of a call: consecutive positions of the list, from
\* any of them on
Batch(k, start) ==
    [i \in ParticleIds |->
        PositionsOf(k)[((start - 1 + i) % Len(PositionsOf(k))) + 1]]
Batches(k) == {Batch(k, s) : s \in 1 .. Len(PositionsOf(k))}

\* grid arrays of the field kernels.  "uniform": every mode-0 component is a
\* constant of its own and mode 1 is zero; "ramp": every cell differs
Scenarios == {"uniform", "ramp"}
UniformValue(n) ==
    CASE n = "Er_m0" -> CX(RInt(2), RInt(1))
      [] n = "Et_m0" -> CX(RInt(-1), RInt(2))
      [] n = "Ez_m0" -> CX(RInt(3), RInt(-1))
      [] n = "Br_m0" -> CX(RInt(1), RInt(1))
      [] n = "Bt_m0" -> CX(RInt(-2), RInt(0))
      [] n = "Bz_m0" -> CX(RInt(5), RInt(3))
      [] OTHER -> XZero
RampValue(k, c) == CX(RInt(k + c[1] + 2 * c[2]), RInt(c[1] - k * c[2]))
FieldGrids(scn) ==
    LET ord == <<"Er_m0", "Et_m0", "Ez_m0", "Er_m1", "Et_m1", "Ez_m1",
                 "Br_m0", "Bt_m0", "Bz_m0", "Br_m1", "Bt_m1", "Bz_m1">>
        k(n) == CHOOSE j \in 1 .. 12 : ord[j] = n
    IN  [n \in FieldGridArgs |->
           [c \in Cells(GatherNz, GatherNr) |->
               IF scn = "uniform" THEN UniformValue(n) ELSE RampValue(k(n), c)]]

\* tuple arguments of the envelope kernels: one array per entry of m_tuple
ModeTuples == {<<0>>, <<0, 1>>, <<1>>, <<-1, 0, 1>>}
EnvelopeGrids(m_tuple) ==
    LET arr(k) == [it \in 1 .. Len(m_tuple) |->
                     [c \in Cells(GatherNz, GatherNr) |-> RampValue(k + it, c)]]
    IN  [m_tuple |-> m_tuple, a_tuple |-> arr(1), grad_a_r_tuple |-> arr(2),
         grad_a_t_tuple |-> arr(3), grad_a_z_tuple |-> arr(4),
         dta_tuple |-> arr(5)]

\* nthreads and ptcl_chunk_indices : non-decreasing, from 0 to the number of
\* particles, of size nthreads+1
ChunkArrays(nthreads) ==
    {c \in [0 .. nthreads -> 0 .. NParticles] :
        /\ c[0] = 0 /\ c[nthreads] = NParticles
        /\ \A k \in 0 .. nthreads - 1 : c[k] <= c[k + 1]}

\* values the output arrays hold before the call
OldValue(i) == RInt(7 + i)

----------------------------------------------------------------------------
(* One call of a gathering kernel: the state machine *)

NoLocals == [unset |-> TRUE]

\* arr[i] = v
SetItem_Shifted(arr, i, v) ==
    [arr EXCEPT ![(i + 1) % NParticles] = v]
SetItem(arr, i, v) == [arr EXCEPT ![i] = v]

\* the arrays Sr, Sz an iteration nt of the outer loop works with: its own
ScratchOf_Shared(nt) == 0
ScratchOf(nt) == nt

\* range( ptcl_chunk_indices[nt], ptcl_chunk_indices[nt+1] )
RangeStart_Overlap(nt, idx) == IF idx[nt] > 0 THEN idx[nt] - 1 ELSE 0
RangeStart(nt, idx) == idx[nt]
RangeStop(nt, idx) == idx[nt + 1]

\* iterations of the outer loop: one per particle in the linear field
\* kernel, one per thread chunk in the cubic kernels, and the single
\* sequential loop of the linear envelope kernel
OuterIterations(k, nthreads) ==
    CASE k = "field_linear" -> ParticleIds
      [] k \in CubicKernels -> 0 .. nthreads - 1
      [] OTHER -> {0}

GatherInit ==
    /\ cuda_installed = FALSE /\ obj = "none" /\ meta = NoMeta
    /\ fields = <<>> /\ resident = <<>> /\ lastcall = NoCall
    /\ raised = "none" /\ writes = 0 /\ divs = 0 /\ NoHankel
    /\ kernel \in Kernels
    /\ kgrid = GatherGeometry
    /\ \E b \in Batches(kernel) :
          /\ ptcl_x = [i \in ParticleIds |-> b[i].x]
          /\ ptcl_y = [i \in ParticleIds |-> b[i].y]
          /\ ptcl_z = [i \in ParticleIds |-> b[i].z]
    /\ IF kernel \in FieldKernels
       THEN /\ \E scn \in Scenarios : karr = FieldGrids(scn)
            /\ out = [n \in FieldOutputs |-> [i \in ParticleIds |-> OldValue(i)]]
       ELSE /\ \E mt \in ModeTuples : karr = EnvelopeGrids(mt)
            /\ out = [n \in EnvelopeOutputs |-> [i \in ParticleIds |-> OldValue(i)]]
    /\ \E nthreads \in 1 .. MaxThreads, averaging \in BOOLEAN :
          /\ kernel \in CubicKernels \/ nthreads = 1
          /\ kernel \in FieldKernels => averaging = FALSE
          /\ \E idx \in ChunkArrays(nthreads) :
                kopt = [dt |-> Rat(1, 2), averaging |-> averaging,
                        nthreads |-> nthreads, ptcl_chunk_indices |-> idx]
    /\ proc = [p \in OuterIterations(kernel, kopt.nthreads) |->
                 CASE kernel = "field_linear" ->
                        [pc |-> "load", i |-> p, stop |-> p + 1,
                         cyl |-> NoLocals, loc |-> NoLocals]
                   [] kernel \in CubicKernels ->
                        [pc |-> "alloc", i |-> 0, stop |-> 0,
                         cyl |-> NoLocals, loc |-> NoLocals]
                   [] OTHER ->
                        [pc |-> IF NParticles > 0 THEN "particle" ELSE "done",
                         i |-> 0, stop |-> NParticles,
                         cyl |-> NoLocals, loc |-> NoLocals]]
    /\ scratch = [p \in OuterIterations(kernel, kopt.nthreads) |-> NoLocals]
    /\ visits = [i \in ParticleIds |-> <<>>]
    /\ graised = "none"
    /\ calls = <<kopt.averaging>>

GatherFrame ==
    /\ UNCHANGED <<gridvars, hankelvars>>
    /\ UNCHANGED <<kernel, kgrid, karr, kopt, ptcl_x, ptcl_y, ptcl_z, calls>>

Running(p) == graised = "none" /\ p \in DOMAIN proc

\* the three output arrays of one section receive the values F at index i
WriteSection(o, names, i, F) ==
    [n \in DOMAIN o |->
        IF n = names[1] THEN SetItem(o[n], i, F[1])
        ELSE IF n = names[2] THEN SetItem(o[n], i, F[2])
        ELSE IF n = names[3] THEN SetItem(o[n], i, F[3])
        ELSE o[n]]

\* the five output arrays of the envelope kernels receive the record v
WriteEnvelope(o, i, v) == [n \in DOMAIN o |-> SetItem(o[n], i, v[n])]

\* the five values stored at index i
EnvelopeOld(o, i) == [n \in EnvelopeOutputs |-> o[n][i]]

(* ---- gather_field_numba_linear: one iteration of prange(x.shape[0]) ---- *)

LinearLoad(p) ==
    /\ Running(p) /\ kernel = "field_linear" /\ proc[p].pc = "load"
    /\ LET i == proc[p].i
           cyl == Cylindrical(ptcl_x[i], ptcl_y[i])
       IN  /\ proc' = [proc EXCEPT ![p] =
                  [@ EXCEPT !.pc = "E", !.cyl = cyl,
                            !.loc = LinearStencil(cyl.rj, ptcl_z[i], kgrid)]]
           /\ visits' = [visits EXCEPT ![i] = Append(@, p)]
    /\ UNCHANGED <<out, scratch, graised>>
    /\ GatherFrame

LinearE(p) ==
    /\ Running(p) /\ kernel = "field_linear" /\ proc[p].pc = "E"
    /\ out' = WriteSection(out, <<"Ex", "Ey", "Ez">>, proc[p].i,
                  LinearFieldSection("E", proc[p].cyl, proc[p].loc, karr, kgrid))
    /\ proc' = [proc EXCEPT ![p].pc = "B"]
    /\ UNCHANGED <<scratch, visits, graised>>
    /\ GatherFrame

LinearB(p) ==
    /\ Running(p) /\ kernel = "field_linear" /\ proc[p].pc = "B"
    /\ out' = WriteSection(out, <<"Bx", "By", "Bz">>, proc[p].i,
                  LinearFieldSection("B", proc[p].cyl, proc[p].loc, karr, kgrid))
    /\ proc' = [proc EXCEPT ![p].pc = "done"]
    /\ UNCHANGED <<scratch, visits, graised>>
    /\ GatherFrame

(* ---- the cubic kernels: one iteration nt of prange( nthreads ) ---- *)

\* gather_envelope_field_numba_cubic is compiled without parallel=True: its
\* prange is a sequential range, iteration nt runs after the lower ones
InTurn(nt) ==
    kernel = "env_cubic" => \A q \in DOMAIN proc : q < nt => proc[q].pc = "done"

\* content of an np.empty( 4 ) array: whatever the memory held
EmptyContents == {RInt(0), RInt(99)}

\* "for i in range(...)": the next particle of the chunk, or the end
LoopTo(i, stop) == IF i < stop THEN "shape" ELSE "done"

CubicAlloc(nt) ==
    /\ Running(nt) /\ kernel \in CubicKernels /\ proc[nt].pc = "alloc"
    /\ InTurn(nt)
    /\ \E u \in EmptyContents :
          scratch' = [scratch EXCEPT ![ScratchOf(nt)] =
                         [Sr |-> <<u, u, u, u>>, Sz |-> <<u, u, u, u>>,
                          filled |-> FALSE]]
    /\ LET start == RangeStart(nt, kopt.ptcl_chunk_indices)
           stop == RangeStop(nt, kopt.ptcl_chunk_indices)
       IN  proc' = [proc EXCEPT ![nt] =
                       [@ EXCEPT !.pc = LoopTo(start, stop),
                                 !.i = start, !.stop = stop]]
    /\ UNCHANGED <<out, visits, graised>>
    /\ GatherFrame

CubicShapeStep(nt) ==
    /\ Running(nt) /\ kernel \in CubicKernels /\ proc[nt].pc = "shape"
    /\ LET i == proc[nt].i
           cyl == Cylindrical(ptcl_x[i], ptcl_y[i])
           r_cell == CellCoordinate(kgrid.invdr, cyl.rj, kgrid.rmin)
           z_cell == CellCoordinate(kgrid.invdz, ptcl_z[i], kgrid.zmin)
           ir_lowest == CubicLowest(r_cell)
           iz_lowest == CubicLowest(z_cell)
       IN  /\ scratch' = [scratch EXCEPT ![ScratchOf(nt)] =
                  [Sr |-> CubicShape(RSub(r_cell, RInt(ir_lowest))),
                   Sz |-> CubicShape(RSub(z_cell, RInt(iz_lowest))),
                   filled |-> TRUE]]
           /\ proc' = [proc EXCEPT ![nt] =
                  [@ EXCEPT !.pc = IF kernel = "field_cubic" THEN "E"
                                   ELSE "register",
                            !.cyl = cyl,
                            !.loc = [ir_lowest |-> ir_lowest,
                                     iz_lowest |-> iz_lowest]]]
           /\ visits' = [visits EXCEPT ![i] = Append(@, nt)]
    /\ UNCHANGED <<out, graised>>
    /\ GatherFrame

CubicE(nt) ==
    /\ Running(nt) /\ kernel = "field_cubic" /\ proc[nt].pc = "E"
    /\ LET S == scratch[ScratchOf(nt)]
       IN  out' = WriteSection(out, <<"Ex", "Ey", "Ez">>, proc[nt].i,
                      CubicFieldSection("E", proc[nt].cyl, proc[nt].loc.ir_lowest,
                          proc[nt].loc.iz_lowest, S.Sr, S.Sz, karr, kgrid))
    /\ proc' = [proc EXCEPT ![nt].pc = "B"]
    /\ UNCHANGED <<scratch, visits, graised>>
    /\ GatherFrame

CubicB(nt) ==
    /\ Running(nt) /\ kernel = "field_cubic" /\ proc[nt].pc = "B"
    /\ LET S == scratch[ScratchOf(nt)]
       IN  out' = WriteSection(out, <<"Bx", "By", "Bz">>, proc[nt].i,
                      CubicFieldSection("B", proc[nt].cyl, proc[nt].loc.ir_lowest,
                          proc[nt].loc.iz_lowest, S.Sr, S.Sz, karr, kgrid))
    /\ proc' = [proc EXCEPT ![nt] =
                   [@ EXCEPT !.pc = LoopTo(proc[nt].i + 1, proc[nt].stop),
                             !.i = proc[nt].i + 1]]
    /\ UNCHANGED <<scratch, visits, graised>>
    /\ GatherFrame

(* ---- gather_envelope_field_numba_cubic: modes and registration ---- *)

EnvCubicRegister(nt) ==
    /\ Running(nt) /\ kernel = "env_cubic" /\ proc[nt].pc = "register"
    /\ \E sums \in {CubicEnvelopeSums(0, XZero5, proc[nt].cyl,
                        proc[nt].loc.ir_lowest, proc[nt].loc.iz_lowest,
                        scratch[ScratchOf(nt)].Sr, scratch[ScratchOf(nt)].Sz,
                        karr, kgrid)} :
          IF sums.exc # "none"
          THEN /\ graised' = sums.exc
               /\ UNCHANGED <<out, proc>>
          ELSE /\ \E v \in {EnvelopeValues(proc[nt].cyl, sums.F, kopt.dt)} :
                     out' = WriteEnvelope(out, proc[nt].i,
                                EnvelopeRegister(kopt.averaging,
                                    EnvelopeOld(out, proc[nt].i), v))
               /\ proc' = [proc EXCEPT ![nt] =
                              [@ EXCEPT !.pc = LoopTo(proc[nt].i + 1, proc[nt].stop),
                                        !.i = proc[nt].i + 1]]
               /\ UNCHANGED graised
    /\ UNCHANGED <<scratch, visits>>
    /\ GatherFrame

(* ---- gather_envelope_field_numba_linear: for i in range(x.shape[0]) ---- *)

\* (the intermediate values of the loop body are bound one after the other)
EnvLinearParticle ==
    /\ Running(0) /\ kernel = "env_linear" /\ proc[0].pc = "particle"
    /\ \E cj \in {Cylindrical(ptcl_x[proc[0].i], ptcl_y[proc[0].i])} :
       \E sj \in {LinearStencil(cj.rj, ptcl_z[proc[0].i], kgrid)} :
       \E sums \in {LinearEnvelopeSums(0, XZero5, cj, sj, karr, kgrid)} :
       \E v \in {EnvelopeValues(cj, sums, kopt.dt)} :
          out' = WriteEnvelope(out, proc[0].i,
                     EnvelopeRegister(kopt.averaging,
                         EnvelopeOld(out, proc[0].i), v))
    /\ proc' = [proc EXCEPT ![0] =
                   [@ EXCEPT !.pc = IF proc[0].i + 1 < proc[0].stop
                                    THEN "particle" ELSE "done",
                             !.i = proc[0].i + 1]]
    /\ visits' = [visits EXCEPT ![proc[0].i] = Append(@, 0)]
    /\ UNCHANGED <<scratch, graised>>
    /\ GatherFrame

GatherNext ==
    \/ \E p \in ParticleIds : LinearLoad(p)
    \/ \E p \in ParticleIds : LinearE(p)
    \/ \E p \in ParticleIds : LinearB(p)
    \/ \E nt \in 0 .. MaxThreads - 1 : CubicAlloc(nt)
    \/ \E nt \in 0 .. MaxThreads - 1 : CubicShapeStep(nt)
    \/ \E nt \in 0 .. MaxThreads - 1 : CubicE(nt)
    \/ \E nt \in 0 .. MaxThreads - 1 : CubicB(nt)
    \/ \E nt \in 0 .. MaxThreads - 1 : EnvCubicRegister(nt)
    \/ EnvLinearParticle

GatherSpec == GatherInit /\ [][GatherNext]_vars

AllDone == \A p \in DOMAIN proc : proc[p].pc = "done"

----------------------------------------------------------------------------
(* Claims about the gathering kernels *)

\* E and B are the two triples a field kernel k gathers for a particle at
\* (xj, yj, zj) from the grid arrays a of geometry g
IsFieldGather(k, xj, yj, zj, a, g, E, B) ==
    \E cj \in {Cylindrical(xj, yj)} :
       IF k = "field_linear"
       THEN \E sj \in {LinearStencil(cj.rj, zj, g)} :
               /\ E = LinearFieldSection("E", cj, sj, a, g)
               /\ B = LinearFieldSection("B", cj, sj, a, g)
       ELSE \E r_cell \in {CellCoordinate(g.invdr, cj.rj, g.rmin)},
               z_cell \in {CellCoordinate(g.invdz, zj, g.zmin)} :
            \E Sr \in {CubicShape(RSub(r_cell, RInt(CubicLowest(r_cell))))},
               Sz \in {CubicShape(RSub(z_cell, RInt(CubicLowest(z_cell))))} :
               /\ E = CubicFieldSection("E", cj, CubicLowest(r_cell),
                          CubicLowest(z_cell), Sr, Sz, a, g)
               /\ B = CubicFieldSection("B", cj, CubicLowest(r_cell),
                          CubicLowest(z_cell), Sr, Sz, a, g)

\* the values stored at index i of the six output arrays
StoredE(i) == <<out.Ex[i], out.Ey[i], out.Ez[i]>>
StoredB(i) == <<out.Bx[i], out.By[i], out.Bz[i]>>

\* C1: when gather_field_numba_linear or gather_field_numba_cubic has
\* returned, the six values at index i are the gather of (x[i], y[i], z[i])
\* and the grid arrays alone, whatever the order in which the iterations of
\* the parallel loop took their steps.
C1_OrderIndependent ==
    (kernel \in FieldKernels /\ AllDone) =>
        \A i \in ParticleIds :
            IsFieldGather(kernel, ptcl_x[i], ptcl_y[i], ptcl_z[i], karr, kgrid,
                          StoredE(i), StoredB(i))

\* the cubic field kernel has returned after two or more threads each
\* gathered particles at positions that differ
C1_Witness ==
    /\ kernel = "field_cubic" /\ AllDone /\ kopt.nthreads >= 2
    /\ \E i, j \in ParticleIds :
          /\ visits[i] # visits[j] /\ visits[i] # <<>> /\ visits[j] # <<>>
          /\ ptcl_x[i] # ptcl_x[j]
          /\ StoredE(i) # StoredE(j)

\* C2: in the cubic kernels no particle is taken twice, a particle is taken
\* only by the thread whose chunk [ptcl_chunk_indices[nt],
\* ptcl_chunk_indices[nt+1]) holds it, a thread with an empty chunk takes no
\* particle, and when the call has returned every particle has been taken.
C2_Partition ==
    kernel \in CubicKernels =>
        LET idx == kopt.ptcl_chunk_indices
        IN  /\ \A i \in ParticleIds :
                  /\ Len(visits[i]) <= 1
                  /\ \A k \in 1 .. Len(visits[i]) :
                        /\ idx[visits[i][k]] <= i
                        /\ i < idx[visits[i][k] + 1]
            /\ \A nt \in DOMAIN proc :
                  idx[nt] = idx[nt + 1] =>
                      \A i \in ParticleIds :
                          \A k \in 1 .. Len(visits[i]) : visits[i][k] # nt
            /\ AllDone => \A i \in ParticleIds : Len(visits[i]) = 1

\* a cubic kernel has returned from a call with an empty chunk and a chunk of
\* two or more particles
C2_Witness ==
    /\ kernel \in CubicKernels /\ AllDone
    /\ \E nt \in DOMAIN proc :
          kopt.ptcl_chunk_indices[nt] = kopt.ptcl_chunk_indices[nt + 1]
    /\ \E nt \in DOMAIN proc :
          kopt.ptcl_chunk_indices[nt] + 2 <= kopt.ptcl_chunk_indices[nt + 1]
    /\ \A i \in ParticleIds : Len(visits[i]) = 1

\* C3: a step of any of the four kernels leaves the grid arrays, the grid
\* metadata and the arrays x, y, z unchanged, keeps the set of output arrays
\* and the index set of each, and changes the value at index j of an output
\* array only when the iteration taking the step is processing particle j.
C3_Frame ==
    [][kernel # "none" =>
          /\ karr' = karr /\ kgrid' = kgrid
          /\ ptcl_x' = ptcl_x /\ ptcl_y' = ptcl_y /\ ptcl_z' = ptcl_z
          /\ DOMAIN out' = DOMAIN out
          /\ \A n \in DOMAIN out :
                /\ DOMAIN out'[n] = DOMAIN out[n]
                /\ \A j \in DOMAIN out[n] :
                      out'[n][j] # out[n][j] =>
                          \E p \in DOMAIN proc :
                              /\ proc'[p] # proc[p]
                              /\ proc[p].i = j
                              /\ proc[p].pc \notin {"alloc", "done"}
      ]_vars

\* the linear envelope kernel has written index 0 and not yet index 1
C3_Witness ==
    /\ kernel = "env_linear" /\ proc[0].i = 1 /\ proc[0].pc = "particle"
    /\ out.a2[0] # OldValue(0) /\ out.a2[1] = OldValue(1)

----------------------------------------------------------------------------
(* End-to-end case: the field kernels called on the simulation box of      *)
(* tests/test_laser_envelope.py (Nz = 80, zmin = -10, zmax = 10, Nr = 25,  *)
(* Lr = 40, in micrometres) with one particle on the axis at the centre    *)

EndToEndGeometry ==
    [Nz |-> EndToEndNz, Nr |-> EndToEndNr, zmin |-> RInt(-10),
     invdz |-> Rat(EndToEndNz, 20), rmin |-> RInt(0),
     invdr |-> Rat(EndToEndNr, 40)]

\* the mode-0 arrays, one of which is set to 1+0i
Mode0Args == {"Er_m0", "Et_m0", "Ez_m0", "Br_m0", "Bt_m0", "Bz_m0"}

\* every grid array 0 except the array named one, uniformly 1+0i
UnitGrids(one) ==
    [n \in FieldGridArgs |->
        [c \in Cells(EndToEndNz, EndToEndNr) |-> IF n = one THEN XOne ELSE XZero]]

\* ptcl_chunk_indices for one particle
OneParticleChunks(nthreads) ==
    {c \in [0 .. nthreads -> 0 .. 1] :
        /\ c[0] = 0 /\ c[nthreads] = 1
        /\ \A k \in 0 .. nthreads - 1 : c[k] <= c[k + 1]}

EndToEndInit ==
    /\ cuda_installed = FALSE /\ obj = "none" /\ meta = NoMeta
    /\ fields = <<>> /\ resident = <<>> /\ lastcall = NoCall
    /\ raised = "none" /\ writes = 0 /\ divs = 0 /\ NoHankel
    /\ kernel \in FieldKernels
    /\ kgrid = EndToEndGeometry
    /\ ptcl_x = [i \in {0} |-> RInt(0)]
    /\ ptcl_y = [i \in {0} |-> RInt(0)]
    /\ ptcl_z = [i \in {0} |-> RInt(0)]
    /\ \E one \in Mode0Args : karr = UnitGrids(one)
    /\ out = [n \in FieldOutputs |-> [i \in {0} |-> OldValue(i)]]
    /\ \E nthreads \in 1 .. MaxThreads :
          /\ kernel = "field_cubic" \/ nthreads = 1
          /\ \E idx \in OneParticleChunks(nthreads) :
                kopt = [dt |-> Rat(1, 2), averaging |-> FALSE,
                        nthreads |-> nthreads, ptcl_chunk_indices |-> idx]
    /\ proc = [p \in (IF kernel = "field_linear" THEN {0}
                      ELSE 0 .. kopt.nthreads - 1) |->
                 IF kernel = "field_linear"
                 THEN [pc |-> "load", i |-> p, stop |-> p + 1,
                       cyl |-> NoLocals, loc |-> NoLocals]
                 ELSE [pc |-> "alloc", i |-> 0, stop |-> 0,
                       cyl |-> NoLocals, loc |-> NoLocals]]
    /\ scratch = [p \in DOMAIN proc |-> NoLocals]
    /\ visits = [i \in {0} |-> <<>>]
    /\ graised = "none"
    /\ calls = <<kopt.averaging>>

EndToEndNext ==
    \/ LinearLoad(0)
    \/ LinearE(0)
    \/ LinearB(0)
    \/ \E nt \in 0 .. MaxThreads - 1 : CubicAlloc(nt)
    \/ \E nt \in 0 .. MaxThreads - 1 : CubicShapeStep(nt)
    \/ \E nt \in 0 .. MaxThreads - 1 : CubicE(nt)
    \/ \E nt \in 0 .. MaxThreads - 1 : CubicB(nt)

EndToEndSpec == EndToEndInit /\ [][EndToEndNext]_vars

----------------------------------------------------------------------------
(* Repeated calls of an envelope kernel on the same particle arrays *)

EnvelopeKernels == {"env_linear", "env_cubic"}

\* ptcl_chunk_indices giving one particle to each thread while there are any
EvenChunks(nthreads) ==
    [k \in 0 .. nthreads |->
        IF k = nthreads \/ k > NParticles THEN NParticles ELSE k]

\* the iterations of the outer loop at the start of a call
StartOfCall(k, nthreads) ==
    [p \in OuterIterations(k, nthreads) |->
        IF k \in CubicKernels
        THEN [pc |-> "alloc", i |-> 0, stop |-> 0,
              cyl |-> NoLocals, loc |-> NoLocals]
        ELSE [pc |-> IF NParticles > 0 THEN "particle" ELSE "done",
              i |-> 0, stop |-> NParticles,
              cyl |-> NoLocals, loc |-> NoLocals]]

EnvelopeInit ==
    /\ cuda_installed = FALSE /\ obj = "none" /\ meta = NoMeta
    /\ fields = <<>> /\ resident = <<>> /\ lastcall = NoCall
    /\ raised = "none" /\ writes = 0 /\ divs = 0 /\ NoHankel
    /\ kernel \in EnvelopeKernels
    /\ kgrid = GatherGeometry
    /\ \E b \in Batches(kernel) :
          /\ ptcl_x = [i \in ParticleIds |-> b[i].x]
          /\ ptcl_y = [i \in ParticleIds |-> b[i].y]
          /\ ptcl_z = [i \in ParticleIds |-> b[i].z]
    /\ \E mt \in ModeTuples : karr = EnvelopeGrids(mt)
    /\ out = [n \in EnvelopeOutputs |-> [i \in ParticleIds |-> OldValue(i)]]
    /\ \E averaging \in BOOLEAN :
          LET nthreads == IF kernel = "env_cubic" THEN MaxThreads ELSE 1
          IN  kopt = [dt |-> Rat(1, 2), averaging |-> averaging,
                      nthreads |-> nthreads,
                      ptcl_chunk_indices |-> EvenChunks(nthreads)]
    /\ proc = StartOfCall(kernel, kopt.nthreads)
    /\ scratch = [p \in DOMAIN proc |-> NoLocals]
    /\ visits = [i \in ParticleIds |-> <<>>]
    /\ graised = "none"
    /\ calls = <<kopt.averaging>>

\* the kernel is called again, with the same grid, positions and output
\* arrays, with averaging or without
CallAgain(averaging) ==
    /\ kernel \in EnvelopeKernels /\ graised = "none" /\ AllDone
    /\ Len(calls) < MaxCalls
    /\ calls' = Append(calls, averaging)
    /\ kopt' = [kopt EXCEPT !.averaging = averaging]
    /\ proc' = StartOfCall(kernel, kopt.nthreads)
    /\ scratch' = [p \in DOMAIN proc |-> NoLocals]
    /\ visits' = [i \in ParticleIds |-> <<>>]
    /\ UNCHANGED <<kernel, kgrid, karr, ptcl_x, ptcl_y, ptcl_z, out, graised>>
    /\ UNCHANGED <<gridvars, hankelvars>>

EnvelopeNext ==
    \/ \E nt \in 0 .. MaxThreads - 1 : CubicAlloc(nt)
    \/ \E nt \in 0 .. MaxThreads - 1 : CubicShapeStep(nt)
    \/ \E nt \in 0 .. MaxThreads - 1 : EnvCubicRegister(nt)
    \/ EnvLinearParticle
    \/ \E averaging \in BOOLEAN : CallAgain(averaging)

EnvelopeSpec == EnvelopeInit /\ [][EnvelopeNext]_vars

----------------------------------------------------------------------------
(* Claims about the envelope kernels *)

\* Re(a * conj(b)) for two complex numbers
ReTimesConj(a, b) == RAdd(RMul(a.re, b.re), RMul(a.im, b.im))

\* the five values of the claims for the mode sums S = <<F, Fr, Ft, Fz, dtF>>
\* of a particle at angle (cos, sin): intensity, gradient, delayed intensity
EnvelopeResult(cj, S, dt) ==
    LET Fx == CX(RSub(RMul(cj.cos, S[2].re), RMul(cj.sin, S[3].re)),
                 RSub(RMul(cj.cos, S[2].im), RMul(cj.sin, S[3].im)))
        Fy == CX(RAdd(RMul(cj.sin, S[2].re), RMul(cj.cos, S[3].re)),
                 RAdd(RMul(cj.sin, S[2].im), RMul(cj.cos, S[3].im)))
        D == CX(RAdd(RMul(RMul(Rat(1, 2), dt), S[5].re), S[1].re),
                RAdd(RMul(RMul(Rat(1, 2), dt), S[5].im), S[1].im))
    IN  [a2 |-> ReTimesConj(S[1], S[1]),
         grad_a2_x |-> RMul(RInt(2), ReTimesConj(Fx, S[1])),
         grad_a2_y |-> RMul(RInt(2), ReTimesConj(Fy, S[1])),
         grad_a2_z |-> RMul(RInt(2), ReTimesConj(S[4], S[1])),
         a2_delayed |-> ReTimesConj(D, D)]

\* v holds the five values of the claims for a particle at (xj, yj, zj), with
\* the mode sums the envelope kernel k forms from the tuples a
IsEnvelopeGather(k, xj, yj, zj, a, g, dt, v) ==
    \E cj \in {Cylindrical(xj, yj)} :
       IF k = "env_linear"
       THEN \E sj \in {LinearStencil(cj.rj, zj, g)} :
            \E S \in {LinearEnvelopeSums(0, XZero5, cj, sj, a, g)} :
               v = EnvelopeResult(cj, S, dt)
       ELSE \E r_cell \in {CellCoordinate(g.invdr, cj.rj, g.rmin)},
               z_cell \in {CellCoordinate(g.invdz, zj, g.zmin)} :
            \E Sr \in {CubicShape(RSub(r_cell, RInt(CubicLowest(r_cell))))},
               Sz \in {CubicShape(RSub(z_cell, RInt(CubicLowest(z_cell))))} :
            \E S \in {CubicEnvelopeSums(0, XZero5, cj, CubicLowest(r_cell),
                          CubicLowest(z_cell), Sr, Sz, a, g)} :
               v = EnvelopeResult(cj, S.F, dt)

\* the five values stored at index i
StoredEnvelope(i) == [n \in EnvelopeOutputs |-> out[n][i]]

\* C12: when an envelope kernel called with averaging=False has returned,
\* the five values at index i are Re(F conj(F)), 2 Re(Fx conj(F)),
\* 2 Re(Fy conj(F)), 2 Re(Fz conj(F)) and Re(D conj(D)), D = 0.5 dt dtF + F,
\* whatever the arrays held before the call (initial content or the result
\* of earlier calls with or without averaging).
C12_Overwrite ==
    (kernel \in EnvelopeKernels /\ AllDone /\ ~kopt.averaging) =>
        \A i \in ParticleIds :
            IsEnvelopeGather(kernel, ptcl_x[i], ptcl_y[i], ptcl_z[i], karr,
                             kgrid, kopt.dt, StoredEnvelope(i))

\* an envelope kernel has returned from a second call without averaging that
\* followed a call with averaging, and holds a delayed intensity that differs
\* from the intensity
C12_Witness ==
    /\ kernel \in EnvelopeKernels /\ AllDone
    /\ Len(calls) >= 2 /\ calls[Len(calls) - 1] /\ ~calls[Len(calls)]
    /\ out.a2[0] # OldValue(0) /\ out.a2_delayed[0] # out.a2[0]

\* the value that, averaged with the five values old, gives the five values new
Unaveraged(old, new) ==
    [n \in EnvelopeOutputs |-> RSub(RMul(RInt(2), new[n]), old[n])]

\* a step of a call with averaging=True stores new values at index i
AveragingStepAt(i) ==
    /\ kernel \in EnvelopeKernels /\ kopt.averaging
    /\ StoredEnvelope(i)' # StoredEnvelope(i)

\* C13: a call with averaging=True makes each of the five values at index i
\* the unweighted mean of the value stored before and the value a call with
\* averaging=False would have written; in particular a2_delayed becomes
\* 0.5 * (old a2_delayed + Re(D conj(D))), D = 0.5 dt dtF + F.
C13_AveragingIsMean ==
    [][\A i \in ParticleIds :
          AveragingStepAt(i) =>
              IsEnvelopeGather(kernel, ptcl_x[i], ptcl_y[i], ptcl_z[i], karr,
                               kgrid, kopt.dt,
                               Unaveraged(StoredEnvelope(i), StoredEnvelope(i)'))]_vars

\* X is Re(F conj(F)) for a particle at (xj, yj, zj), with the mode sum F the
\* envelope kernel k forms from the tuples a
IsIntensity(k, xj, yj, zj, a, g, X) ==
    \E cj \in {Cylindrical(xj, yj)} :
       IF k = "env_linear"
       THEN \E sj \in {LinearStencil(cj.rj, zj, g)} :
            \E S \in {LinearEnvelopeSums(0, XZero5, cj, sj, a, g)} :
               X = ReTimesConj(S[1], S[1])
       ELSE \E r_cell \in {CellCoordinate(g.invdr, cj.rj, g.rmin)},
               z_cell \in {CellCoordinate(g.invdz, zj, g.zmin)} :
            \E Sr \in {CubicShape(RSub(r_cell, RInt(CubicLowest(r_cell))))},
               Sz \in {CubicShape(RSub(z_cell, RInt(CubicLowest(z_cell))))} :
            \E S \in {CubicEnvelopeSums(0, XZero5, cj, CubicLowest(r_cell),
                          CubicLowest(z_cell), Sr, Sz, a, g)} :
               X = ReTimesConj(S.F[1], S.F[1])

\* a2[i] holds the intensity this call gathers for particle i
HoldsIntensity(i) ==
    IsIntensity(kernel, ptcl_x[i], ptcl_y[i], ptcl_z[i], karr, kgrid, out.a2[i])

\* the call in progress and the call before it both have averaging=True
SecondAveragingCall ==
    /\ kernel \in EnvelopeKernels
    /\ Len(calls) >= 2 /\ calls[Len(calls)] /\ calls[Len(calls) - 1]

\* C14 as stated: a second call in a row with averaging=True, on the same
\* grid and positions, leaves a2 as the first of the two calls left it.
C14_SecondAveragingKeeps ==
    [][\A i \in ParticleIds : SecondAveragingCall => out'.a2[i] = out.a2[i]]_vars

\* C14: a call with averaging=True leaves a2[i] unchanged when a2[i] holds
\* Re(F conj(F)) of this grid and position before the call (as after a call
\* with averaging=False on the same grid and positions); two calls with
\* averaging=True in a row change it otherwise.
C14_AveragingKeepsIntensity ==
    [][\A i \in ParticleIds :
          (kernel \in EnvelopeKernels /\ kopt.averaging /\ HoldsIntensity(i))
              => out'.a2[i] = out.a2[i]]_vars

\* a call with averaging=True that followed a call with averaging=False has
\* returned; a2 holds the intensity and differs from the initial content
C14_Witness ==
    /\ kernel \in EnvelopeKernels /\ AllDone
    /\ Len(calls) >= 2 /\ calls[Len(calls)] /\ ~calls[Len(calls) - 1]
    /\ \A i \in ParticleIds : HoldsIntensity(i) /\ out.a2[i] # OldValue(i)
    /\ out.grad_a2_x[0] # OldValue(0)

\* the mode sums with the shape factors of the cubic kernel when the k-th
\* mode index is combined with the k-th arrays, as the linear kernel does
RECURSIVE PairedCubicSums(_, _, _, _, _, _, _, _, _)
PairedCubicSums(it, F, cyl, ir_lowest, iz_lowest, Sr, Sz, a, g) ==
    IF it >= Len(a.m_tuple) THEN F
    ELSE LET m == TupleGet(a.m_tuple, it)
         IN  PairedCubicSums(it + 1,
                 add_cubic_envelope_gather_for_mode(m, F, XPow(ExpTheta1(cyl), m),
                     TupleGet(a.a_tuple, it), TupleGet(a.grad_a_r_tuple, it),
                     TupleGet(a.grad_a_t_tuple, it), TupleGet(a.grad_a_z_tuple, it),
                     TupleGet(a.dta_tuple, it), ir_lowest, iz_lowest, Sr, Sz, g),
                 cyl, ir_lowest, iz_lowest, Sr, Sz, a, g)

\* C15: for every m_tuple, the cubic envelope kernel reads no tuple element
\* outside [0, len) and forms the mode sums of a particle by combining
\* m_tuple[k] with the k-th arrays of the five tuples, as the linear envelope
\* kernel does (whose loop runs over the positions it = 0 .. len-1).
C15_PairsByPosition ==
    \A nt \in DOMAIN proc :
        (kernel = "env_cubic" /\ graised = "none" /\ proc[nt].pc = "register") =>
            \E sums \in {CubicEnvelopeSums(0, XZero5, proc[nt].cyl,
                             proc[nt].loc.ir_lowest, proc[nt].loc.iz_lowest,
                             scratch[ScratchOf(nt)].Sr, scratch[ScratchOf(nt)].Sz,
                             karr, kgrid)} :
            \E paired \in {PairedCubicSums(0, XZero5, proc[nt].cyl,
                               proc[nt].loc.ir_lowest, proc[nt].loc.iz_lowest,
                               scratch[ScratchOf(nt)].Sr, scratch[ScratchOf(nt)].Sz,
                               karr, kgrid)} :
                sums.exc = "none" /\ sums.F = paired

----------------------------------------------------------------------------
(* A call of a field kernel with a particle whose position was not        *)
(* validated: a coordinate that is not finite, or far outside the box      *)

\* the floats that are not finite
NaN == <<0, 0>>
PlusInf == <<1, 0>>
MinusInf == <<-1, 0>>
NonFinite == {NaN, PlusInf, MinusInf}
IsFinite(v) == v \notin NonFinite

\* int64: the lowest and the highest value, scaled to an axis of N cells
\* (further from [0, N) than the boundary conditions bring back), and the
\* addition, which wraps around
IndexMin(N) == -(4 * N)
IndexMax(N) == 4 * N
Int64Add(v, k, N) ==
    LET sum == v + k
        span == IndexMax(N) - IndexMin(N) + 1
    IN  IF sum > IndexMax(N) THEN sum - span
        ELSE IF sum < IndexMin(N) THEN sum + span ELSE sum

\* int(math.floor(cell)) for a cell coordinate that is not finite: the
\* conversion to int64 is undefined; the builds give the lowest int64, zero
\* or the highest int64
ConvertedNonFinite(N) == {IndexMin(N), 0, IndexMax(N)}

\* r_cell or z_cell: a rational, or a float that is not finite
UnvalidatedCell(invd, pos, min) ==
    IF IsFinite(pos) THEN CellCoordinate(invd, pos, min) ELSE pos

\* rj = math.sqrt( xj**2 + yj**2 )
UnvalidatedRadius(xj, yj) ==
    IF IsFinite(xj) /\ IsFinite(yj) THEN Cylindrical(xj, yj).rj
    ELSE IF NaN \in {xj, yj} THEN NaN ELSE PlusInf

\* indices and linear weights along one axis, before the boundary
\* conditions: the outcomes of the conversion when the cell coordinate is
\* not finite
UnvalidatedWeights(cell, N) ==
    IF IsFinite(cell) THEN {LinearWeights(cell)}
    ELSE {[lower |-> fl, upper |-> Int64Add(fl, 1, N),
           S_lower |-> IF cell = PlusInf THEN MinusInf
                       ELSE IF cell = MinusInf THEN PlusInf ELSE NaN,
           S_upper |-> cell] : fl \in ConvertedNonFinite(N)}

\* ir_lowest or iz_lowest of the cubic kernels
UnvalidatedLowest(cell, N) ==
    IF IsFinite(cell) THEN {CubicLowest(cell)}
    ELSE {Int64Add(fl, -1, N) : fl \in ConvertedNonFinite(N)}

\* the grid indices a field kernel k reads for a particle at (xj, yj, zj):
\* one footprint [iz, ir] for each outcome of the conversions
Footprints(k, xj, yj, zj, g) ==
    LET r_cell == UnvalidatedCell(g.invdr, UnvalidatedRadius(xj, yj), g.rmin)
        z_cell == UnvalidatedCell(g.invdz, zj, g.zmin)
    IN  IF k = "field_linear"
        THEN {[iz |-> {LongitudinalBoundary(wz, g.Nz).iz_lower,
                       LongitudinalBoundary(wz, g.Nz).iz_upper},
               ir |-> {RadialBoundary(wr, g.Nr).ir_lower,
                       RadialBoundary(wr, g.Nr).ir_upper}] :
                 wr \in UnvalidatedWeights(r_cell, g.Nr),
                 wz \in UnvalidatedWeights(z_cell, g.Nz)}
        ELSE {[iz |-> {WrapZ(Int64Add(lz, kz - 1, g.Nz), g.Nz) : kz \in 1 .. 4},
               ir |-> {ClampR(Int64Add(lr, kr - 1, g.Nr), g.Nr) : kr \in 1 .. 4}] :
                 lr \in UnvalidatedLowest(r_cell, g.Nr),
                 lz \in UnvalidatedLowest(z_cell, g.Nz)}

\* an index the array access resolves inside an axis of N cells (a negative
\* index counts from the end, once); no bounds are checked beyond that
InArray(idx, N) == -N <= idx /\ idx < N
FootprintInArrays(f, g) ==
    /\ \A iz \in f.iz : InArray(iz, g.Nz)
    /\ \A ir \in f.ir : InArray(ir, g.Nr)

\* particle i has finite coordinates and every read of its stencil falls
\* inside the grid arrays
SafeParticle(k, i) ==
    /\ IsFinite(ptcl_x[i]) /\ IsFinite(ptcl_y[i]) /\ IsFinite(ptcl_z[i])
    /\ \A f \in Footprints(k, ptcl_x[i], ptcl_y[i], ptcl_z[i], kgrid) :
          FootprintInArrays(f, kgrid)

\* what a read outside the arrays gives when it does not fault, and what
\* the sums give with a weight that is not finite
Garbage == NonFinite \union {RInt(0)}

\* positions that were not validated: z not a number, z infinite, x not a
\* number, and a finite z two box lengths above zmin
UnvalidatedPositions ==
    LET g == GatherGeometry
        dz == RDiv(RInt(1), g.invdz)
        ok == Positions[6]
    IN  {[x |-> ok.x, y |-> ok.y, z |-> NaN],
         [x |-> ok.x, y |-> ok.y, z |-> PlusInf],
         [x |-> NaN, y |-> ok.y, z |-> ok.z],
         [x |-> ok.x, y |-> ok.y,
          z |-> RAdd(g.zmin, RMul(Rat(8 * g.Nz + 3, 4), dz))]}

UnvalidatedInit ==
    /\ cuda_installed = FALSE /\ obj = "none" /\ meta = NoMeta
    /\ fields = <<>> /\ resident = <<>> /\ lastcall = NoCall
    /\ raised = "none" /\ writes = 0 /\ divs = 0 /\ NoHankel
    /\ kernel \in FieldKernels
    /\ kgrid = GatherGeometry
    /\ \E b \in Batches(kernel), j \in ParticleIds, bad \in UnvalidatedPositions :
          /\ ptcl_x = [i \in ParticleIds |-> IF i = j THEN bad.x ELSE b[i].x]
          /\ ptcl_y = [i \in ParticleIds |-> IF i = j THEN bad.y ELSE b[i].y]
          /\ ptcl_z = [i \in ParticleIds |-> IF i = j THEN bad.z ELSE b[i].z]
    /\ karr = FieldGrids("ramp")
    /\ out = [n \in FieldOutputs |-> [i \in ParticleIds |-> OldValue(i)]]
    /\ \E nthreads \in {IF kernel = "field_cubic" THEN MaxThreads ELSE 1} :
          kopt = [dt |-> Rat(1, 2), averaging |-> FALSE, nthreads |-> nthreads,
                  ptcl_chunk_indices |-> EvenChunks(nthreads)]
    /\ proc = [p \in OuterIterations(kernel, kopt.nthreads) |->
                 IF kernel = "field_linear"
                 THEN [pc |-> "load", i |-> p, stop |-> p + 1,
                       cyl |-> NoLocals, loc |-> NoLocals]
                 ELSE [pc |-> "alloc", i |-> 0, stop |-> 0,
                       cyl |-> NoLocals, loc |-> NoLocals]]
    /\ scratch = [p \in OuterIterations(kernel, kopt.nthreads) |-> NoLocals]
    /\ visits = [i \in ParticleIds |-> <<>>]
    /\ graised = "none"
    /\ calls = <<FALSE>>

\* the iteration p of the outer loop is about to take a particle that is safe
SafeAt(p) ==
    /\ Running(p) /\ proc[p].pc \in {"load", "shape"}
    /\ SafeParticle(kernel, proc[p].i)

\* the body of the loop for a particle i that is not safe: a read outside
\* the arrays faults, or gives whatever the memory holds; the six values
\* stored at index i are not the gather of anything
UnvalidatedBody(i) ==
    \E f \in Footprints(kernel, ptcl_x[i], ptcl_y[i], ptcl_z[i], kgrid) :
       \/ /\ ~FootprintInArrays(f, kgrid)
          /\ graised' = "SegmentationFault"
          /\ UNCHANGED <<out, proc, visits>>
       \/ /\ \E v \in (IF FootprintInArrays(f, kgrid) THEN NonFinite ELSE Garbage) :
                out' = [n \in DOMAIN out |-> SetItem(out[n], i, v)]
          /\ UNCHANGED graised

LinearUnvalidated(p) ==
    /\ Running(p) /\ kernel = "field_linear" /\ proc[p].pc = "load"
    /\ ~SafeParticle(kernel, proc[p].i)
    /\ UnvalidatedBody(proc[p].i)
    /\ graised' = "none" =>
          /\ proc' = [proc EXCEPT ![p].pc = "done"]
          /\ visits' = [visits EXCEPT ![proc[p].i] = Append(@, p)]
    /\ UNCHANGED scratch
    /\ GatherFrame

CubicUnvalidated(nt) ==
    /\ Running(nt) /\ kernel = "field_cubic" /\ proc[nt].pc = "shape"
    /\ ~SafeParticle(kernel, proc[nt].i)
    /\ UnvalidatedBody(proc[nt].i)
    /\ graised' = "none" =>
          /\ proc' = [proc EXCEPT ![nt] =
                         [@ EXCEPT !.pc = LoopTo(proc[nt].i + 1, proc[nt].stop),
                                   !.i = proc[nt].i + 1]]
          /\ visits' = [visits EXCEPT ![proc[nt].i] = Append(@, nt)]
    /\ UNCHANGED scratch
    /\ GatherFrame

UnvalidatedNext ==
    \/ \E p \in ParticleIds : SafeAt(p) /\ LinearLoad(p)
    \/ \E p \in ParticleIds : LinearE(p)
    \/ \E p \in ParticleIds : LinearB(p)
    \/ \E p \in ParticleIds : LinearUnvalidated(p)
    \/ \E nt \in 0 .. MaxThreads - 1 : CubicAlloc(nt)
    \/ \E nt \in 0 .. MaxThreads - 1 : SafeAt(nt) /\ CubicShapeStep(nt)
    \/ \E nt \in 0 .. MaxThreads - 1 : CubicE(nt)
    \/ \E nt \in 0 .. MaxThreads - 1 : CubicB(nt)
    \/ \E nt \in 0 .. MaxThreads - 1 : CubicUnvalidated(nt)

UnvalidatedSpec == UnvalidatedInit /\ [][UnvalidatedNext]_vars

\* C16: a particle whose position is not finite, or outside the validated
\* range, never makes the call of a field kernel fail, and when the call has
\* returned the six values of every particle with a valid position are the
\* gather of that particle alone.
C16_BadParticleIsolated ==
    (kernel \in FieldKernels /\ \E i \in ParticleIds : ~SafeParticle(kernel, i)) =>
        /\ graised = "none"
        /\ AllDone =>
              \A j \in ParticleIds :
                 SafeParticle(kernel, j) =>
                    IsFieldGather(kernel, ptcl_x[j], ptcl_y[j], ptcl_z[j], karr,
                                  kgrid, StoredE(j), StoredB(j))

----------------------------------------------------------------------------
(* The Discrete Hankel Transform object of fbpic/hankel_dt.py.  An array   *)
(* is the sequence of the operations that produced it, from its sampling  *)
(* on a grid on: what scipy computes is not evaluated, what the code      *)
(* passes to it is.                                                        *)

\* The list of available methods
available_methods == {"QDHT", "MDHT(m+1,m)", "MDHT(m-1,m)", "MDHT(m,m)"}

\* the methods of the module docstring ("Available methods") and of the
\* branches of the constructor
DocumentedMethods == {"FHT", "QDHT", "MDHT(m,m)", "MDHT(m-1,m)", "MDHT(m+1,m)"}

\* strings given as the argument method
MethodStrings == DocumentedMethods \union {"DHT", "qdht"}

MDHT_methods == {"MDHT(m,m)", "MDHT(m-1,m)", "MDHT(m+1,m)"}

\* the initialization routine __init__ calls for self.method, and the index
\* m of the nu grid it passes to MDHT_init
InitRoutine(method) ==
    CASE method = "FHT" -> "FHT_init"
      [] method = "QDHT" -> "QDHT_init"
      [] method \in MDHT_methods -> "MDHT_init"
      [] OTHER -> "none"
InitIndex(method, p) ==
    CASE method = "MDHT(m-1,m)" -> p + 1
      [] method = "MDHT(m+1,m)" -> p - 1
      [] OTHER -> p

\* MDHT_init: the exception it ends with.  m is checked; with an offset d the
\* local S is not assigned, and the formula of Fw = 'symmetric' reads it
MDHT_init(p, m, d, Fw) ==
    IF m \notin {p - 1, p, p + 1} THEN "ValueError: m must be either"
    ELSE IF d /\ Fw = "symmetric" THEN "UnboundLocalError"
    ELSE "none"

\* DHT.__init__(p, N, rmax, method, **kw): the outcome hcall and the object
DHT_init(p, N, method, d, Fw) ==
    IF method \notin available_methods
    THEN [call |-> [NoCallYet EXCEPT !.op = "__init__", !.method = method,
                        !.exc = "ValueError: Illegal method string"],
          obj |-> NoObject]
    ELSE LET m == InitIndex(method, p)
             exc == IF InitRoutine(method) = "MDHT_init"
                    THEN MDHT_init(p, m, d, Fw) ELSE "none"
         IN  [call |-> [NoCallYet EXCEPT !.op = "__init__", !.method = method,
                            !.ran = IF InitRoutine(method) = "none" THEN <<>>
                                    ELSE <<InitRoutine(method)>>,
                            !.exc = exc],
              obj |-> IF exc # "none" THEN NoObject
                      ELSE [exists |-> TRUE, method |-> method, p |-> p,
                            N |-> N, m |-> m, d |-> d, Fw |-> Fw]]

\* one operation in the history of an array
Step(op, from, to) == [op |-> op, from |-> from, to |-> to]

\* an argument array: values sampled on a grid
Sampled(grid) == <<Step("sampled", grid, grid)>>

\* interp1d( x, y, ... )( x_new ): the array y taken as sampled on x,
\* interpolated on x_new
interp1d(x, y, x_new) == Append(y, Step("interp1d", x, x_new))

\* the routine that performs the transform for self.method
TransformRoutine(method, direction) ==
    CASE method = "FHT" -> "FHT_" \o direction
      [] method = "QDHT" -> "QDHT_" \o direction
      [] OTHER -> "MDHT_" \o direction

\* DHT.transform( f, axis, r, nu ): r_given and nu_given tell whether the
\* grids are passed, len is f.shape[axis]
DHT_transform(o, r_given, nu_given, len) ==
    LET call == [NoCallYet EXCEPT !.op = "transform", !.method = o.method,
                     !.r = r_given, !.nu = nu_given, !.len = len]
        f == Sampled(IF r_given THEN "r" ELSE "self.r")
        F == IF r_given THEN interp1d("r", f, "self.r") ELSE f
        G == Append(F, Step(TransformRoutine(o.method, "transform"),
                            "self.r", "self.nu"))
    IN  IF ~r_given /\ len # o.N
        THEN [call EXCEPT !.exc = "AssertionError"]
        ELSE [call EXCEPT !.ran = <<TransformRoutine(o.method, "transform")>>,
                          !.result = IF nu_given
                                     THEN interp1d("self.nu", G, "nu") ELSE G]

\* DHT.inverse_transform( g, axis, nu, r )
DHT_inverse_transform(o, nu_given, r_given, len) ==
    LET call == [NoCallYet EXCEPT !.op = "inverse_transform",
                     !.method = o.method, !.r = r_given, !.nu = nu_given,
                     !.len = len]
        g == Sampled(IF nu_given THEN "nu" ELSE "self.nu")
        G == IF nu_given THEN interp1d("nu", g, "self.nu") ELSE g
        routine == TransformRoutine(o.method, "inverse_transform")
        F == Append(G, Step(routine, "self.nu", "self.r"))
    IN  IF ~nu_given /\ len # o.N
        THEN [call EXCEPT !.exc = "AssertionError"]
        ELSE IF nu_given
        THEN IF r_given
             THEN [call EXCEPT !.ran = <<routine>>,
                               !.result = interp1d("self.r", G, "r")]
             ELSE [call EXCEPT !.ran = <<routine>>,
                               !.exc = "ValueError: interp1d( None )"]
        ELSE [call EXCEPT !.ran = <<routine>>, !.result = F]

HankelInit ==
    /\ cuda_installed = FALSE /\ obj = "none" /\ meta = NoMeta
    /\ fields = <<>> /\ resident = <<>> /\ lastcall = NoCall
    /\ raised = "none" /\ writes = 0 /\ divs = 0
    /\ NoGather /\ NoHankel

HankelFrame == UNCHANGED <<gridvars, gathervars>>

\* trans = DHT( p, N, rmax, method, **kw )
Construct_DHT(p, N, method, d, Fw) ==
    /\ method \in MDHT_methods \/ (~d /\ Fw = "symmetric")
    /\ \E res \in {DHT_init(p, N, method, d, Fw)} :
          dht' = res.obj /\ hcall' = res.call
    /\ HankelFrame

Call_transform(r_given, nu_given, len) ==
    /\ dht.exists
    /\ hcall' = DHT_transform(dht, r_given, nu_given, len)
    /\ UNCHANGED dht
    /\ HankelFrame

Call_inverse_transform(nu_given, r_given, len) ==
    /\ dht.exists
    /\ hcall' = DHT_inverse_transform(dht, nu_given, r_given, len)
    /\ UNCHANGED dht
    /\ HankelFrame

HankelNext ==
    \/ \E p \in 0 .. 1, N \in 1 .. MaxDhtN, method \in MethodStrings,
          d \in BOOLEAN, Fw \in {"symmetric", "inverse"} :
          Construct_DHT(p, N, method, d, Fw)
    \/ \E r_given \in BOOLEAN, nu_given \in BOOLEAN, len \in 1 .. MaxDhtN :
          Call_transform(r_given, nu_given, len)
    \/ \E r_given \in BOOLEAN, nu_given \in BOOLEAN, len \in 1 .. MaxDhtN :
          Call_inverse_transform(nu_given, r_given, len)

HankelSpec == HankelInit /\ [][HankelNext]_vars

----------------------------------------------------------------------------
(* Claims about the DHT object *)

\* C17: DHT(p, N, rmax, method) accepts every documented method (FHT, QDHT
\* and the MDHT variants) and runs the initialization routine that matches
\* it; for any other string it raises ValueError('Illegal method string')
\* before any initialization routine runs.
C17_DocumentedMethodsAccepted ==
    hcall.op = "__init__" =>
        IF hcall.method \in DocumentedMethods
        THEN /\ hcall.exc # "ValueError: Illegal method string"
             /\ hcall.ran = <<IF hcall.method = "FHT" THEN "FHT_init"
                              ELSE IF hcall.method = "QDHT" THEN "QDHT_init"
                              ELSE "MDHT_init">>
        ELSE /\ hcall.exc = "ValueError: Illegal method string"
             /\ hcall.ran = <<>>

\* the inverse transform F of the argument g on the natural grid self.r
InverseOnNaturalGrid(method, nu_given) ==
    LET G == IF nu_given
             THEN <<Step("sampled", "nu", "nu"), Step("interp1d", "nu", "self.nu")>>
             ELSE <<Step("sampled", "self.nu", "self.nu")>>
    IN  Append(G, Step(TransformRoutine(method, "inverse_transform"),
                       "self.nu", "self.r"))

\* C18: inverse_transform(g, nu, r) mirrors transform: for every combination
\* of given and omitted nu and r the call returns; when r is given the result
\* is the inverse transform F interpolated from self.r onto r, when r is
\* omitted it is F on the natural grid; the result always derives from F.
C18_InverseMirrorsTransform ==
    (hcall.op = "inverse_transform" /\ (hcall.nu \/ hcall.len = dht.N)) =>
        /\ hcall.exc = "none"
        /\ hcall.result =
              IF hcall.r
              THEN Append(InverseOnNaturalGrid(hcall.method, hcall.nu),
                          Step("interp1d", "self.r", "r"))
              ELSE InverseOnNaturalGrid(hcall.method, hcall.nu)

----------------------------------------------------------------------------
(* The linear weights of the linear kernels, one particle per iteration:   *)
(* the weights before the boundary conditions, then the boundary           *)
(* conditions                                                              *)

\* particle coordinates, by quarters of a cell: x from the axis to beyond the
\* last radial cell (y = 0), z from below zmin to above zmax; the particle
\* of index i is Nr+1 radial cells further out than the particle before it
QuarterPositions ==
    LET g == GatherGeometry
        dr == RDiv(RInt(1), g.invdr)
        dz == RDiv(RInt(1), g.invdz)
    IN  {[x |-> RMul(Rat(kx, 4), dr), y |-> RInt(0),
          z |-> RAdd(g.zmin, RMul(Rat(kz, 4), dz))] :
            kx \in 0 .. 4 * g.Nr + 3, kz \in -3 .. 4 * g.Nz + 3}

StencilInit ==
    /\ cuda_installed = FALSE /\ obj = "none" /\ meta = NoMeta
    /\ fields = <<>> /\ resident = <<>> /\ lastcall = NoCall
    /\ raised = "none" /\ writes = 0 /\ divs = 0 /\ NoHankel
    /\ kernel = "field_linear"
    /\ kgrid = GatherGeometry
    /\ \E pos \in QuarterPositions :
          /\ ptcl_x = [i \in ParticleIds |->
                          RAdd(pos.x, RDiv(RInt(i * (kgrid.Nr + 1)), kgrid.invdr))]
          /\ ptcl_y = [i \in ParticleIds |-> pos.y]
          /\ ptcl_z = [i \in ParticleIds |-> pos.z]
    /\ karr = FieldGrids("uniform")
    /\ out = [n \in FieldOutputs |-> [i \in ParticleIds |-> OldValue(i)]]
    /\ kopt = [dt |-> Rat(1, 2), averaging |-> FALSE, nthreads |-> 1,
               ptcl_chunk_indices |-> EvenChunks(1)]
    /\ proc = [p \in ParticleIds |->
                 [pc |-> "load", i |-> p, stop |-> p + 1,
                  cyl |-> NoLocals, loc |-> NoLocals]]
    /\ scratch = [p \in ParticleIds |-> NoLocals]
    /\ visits = [i \in ParticleIds |-> <<>>]
    /\ graised = "none"
    /\ calls = <<FALSE>>

\* Cylindrical conversion, positions in the cell unit, linear weights
LinearWeightsStep(p) ==
    /\ Running(p) /\ kernel = "field_linear" /\ proc[p].pc = "load"
    /\ LET cyl == Cylindrical(ptcl_x[proc[p].i], ptcl_y[proc[p].i])
           r_cell == CellCoordinate(kgrid.invdr, cyl.rj, kgrid.rmin)
           z_cell == CellCoordinate(kgrid.invdz, ptcl_z[proc[p].i], kgrid.zmin)
       IN  proc' = [proc EXCEPT ![p] =
                       [@ EXCEPT !.pc = "boundary", !.cyl = cyl,
                                 !.loc = [wr |-> LinearWeights(r_cell),
                                          wz |-> LinearWeights(z_cell)]]]
    /\ UNCHANGED <<out, scratch, visits, graised>>
    /\ GatherFrame

\* Treat the boundary conditions
LinearBoundaryStep(p) ==
    /\ Running(p) /\ kernel = "field_linear" /\ proc[p].pc = "boundary"
    /\ proc' = [proc EXCEPT ![p] =
                   [@ EXCEPT !.pc = "shapes",
                             !.loc = [wr |-> proc[p].loc.wr,
                                      wz |-> proc[p].loc.wz,
                                      r |-> RadialBoundary(proc[p].loc.wr, kgrid.Nr),
                                      z |-> LongitudinalBoundary(proc[p].loc.wz,
                                                                 kgrid.Nz)]]]
    /\ UNCHANGED <<out, scratch, visits, graised>>
    /\ GatherFrame

StencilNext ==
    \/ \E p \in ParticleIds : LinearWeightsStep(p)
    \/ \E p \in ParticleIds : LinearBoundaryStep(p)

StencilSpec == StencilInit /\ [][StencilNext]_vars

\* the weights w of one axis are those of the cell coordinate c
IsLinearWeights(w, c) ==
    /\ ~RLess(c, RInt(w.lower)) /\ RLess(c, RInt(w.lower + 1))
    /\ w.upper = w.lower + 1
    /\ w.S_lower = RSub(RInt(w.upper), c)
    /\ w.S_upper = RSub(c, RInt(w.lower))
    /\ ~RLess(w.S_lower, RInt(0)) /\ ~RLess(RInt(1), w.S_lower)
    /\ ~RLess(w.S_upper, RInt(0)) /\ ~RLess(RInt(1), w.S_upper)
    /\ RAdd(w.S_lower, w.S_upper) = RInt(1)
    /\ c = RInt(w.lower) => (w.S_lower = RInt(1) /\ w.S_upper = RInt(0))

\* the iteration p has computed its linear weights
HasWeights(p) == p \in DOMAIN proc /\ proc[p].pc \in {"boundary", "shapes"}

\* C19: on each axis the lower index is floor(cell coordinate), the upper
\* index is lower+1, weight_lower = upper - coordinate, weight_upper =
\* coordinate - lower; both weights are in [0,1] and sum to 1 (before the
\* boundary conditions), and at a cell centre they are 1 and 0.
C19_LinearWeights ==
    \A p \in ParticleIds :
        (kernel = "field_linear" /\ HasWeights(p)) =>
            \E cj \in {Cylindrical(ptcl_x[p], ptcl_y[p])} :
               /\ IsLinearWeights(proc[p].loc.wr,
                      CellCoordinate(kgrid.invdr, cj.rj, kgrid.rmin))
               /\ IsLinearWeights(proc[p].loc.wz,
                      CellCoordinate(kgrid.invdz, ptcl_z[p], kgrid.zmin))

\* one particle at a cell centre in z, with weights 1 and 0 there and two
\* equal weights in r; another with weights 1/4 and 3/4 in z
C19_Witness ==
    /\ kernel = "field_linear" /\ HasWeights(0)
    /\ proc[0].loc.wz.S_lower = RInt(1) /\ proc[0].loc.wz.S_upper = RInt(0)
    /\ proc[0].loc.wr.S_lower = Rat(1, 2) /\ proc[0].loc.wr.lower = -1
    /\ ptcl_z[0] = RAdd(kgrid.zmin, RDiv(Rat(1, 2), kgrid.invdz))

\* the iteration p has treated the boundary conditions
HasBoundary(p) == p \in DOMAIN proc /\ proc[p].pc = "shapes"

\* C20: a lower radial index below 0 gives a regular lower weight 0, the
\* former lower weight as guard weight and the lower index 0; otherwise the
\* guard weight is 0 and the lower weight is kept; an index above Nr-1
\* becomes Nr-1, any other index is kept.
C20_RadialBoundary ==
    \A p \in ParticleIds :
        (kernel = "field_linear" /\ HasBoundary(p)) =>
            LET w == proc[p].loc.wr
                r == proc[p].loc.r
            IN  /\ w.lower < 0 =>
                      /\ r.Sr_lower = RInt(0) /\ r.Sr_guard = w.S_lower
                      /\ r.ir_lower = 0
                /\ w.lower >= 0 =>
                      /\ r.Sr_guard = RInt(0) /\ r.Sr_lower = w.S_lower
                      /\ r.ir_lower = (IF w.lower > kgrid.Nr - 1
                                       THEN kgrid.Nr - 1 ELSE w.lower)
                /\ r.ir_upper = (IF w.upper > kgrid.Nr - 1
                                 THEN kgrid.Nr - 1 ELSE w.upper)
                /\ r.Sr_upper = w.S_upper

\* a particle on the axis, whose lower weight 1/2 went to the guard weight,
\* and a particle beyond the last radial cell, whose two indices are Nr-1
C20_Witness ==
    /\ kernel = "field_linear" /\ HasBoundary(0) /\ HasBoundary(1)
    /\ \E p \in {0, 1}, q \in {0, 1} :
          /\ RIsZero(ptcl_x[p]) /\ proc[p].loc.wr.lower = -1
          /\ proc[p].loc.r.Sr_guard = Rat(1, 2) /\ proc[p].loc.r.ir_lower = 0
          /\ proc[q].loc.wr.lower > kgrid.Nr - 1
          /\ proc[q].loc.r.ir_lower = kgrid.Nr - 1
          /\ proc[q].loc.r.ir_upper = kgrid.Nr - 1

----------------------------------------------------------------------------
(* The longitudinal boundary conditions of the linear kernels, for every   *)
(* number of cells Nz from 1 on                                            *)

\* z by tenths of a cell, from a cell and a half below zmin to a cell and a
\* half above zmax; the particle of index i is one cell above the particle
\* before it
WrapInit ==
    /\ cuda_installed = FALSE /\ obj = "none" /\ meta = NoMeta
    /\ fields = <<>> /\ resident = <<>> /\ lastcall = NoCall
    /\ raised = "none" /\ writes = 0 /\ divs = 0 /\ NoHankel
    /\ kernel = "field_linear"
    /\ \E nz \in 1 .. GatherNz :
          /\ kgrid = [GatherGeometry EXCEPT !.Nz = nz]
          /\ \E k \in -15 .. 10 * nz + 10 :
                ptcl_z = [i \in ParticleIds |->
                             RAdd(kgrid.zmin,
                                  RDiv(Rat(2 * k + 20 * i, 20), kgrid.invdz))]
    /\ ptcl_x = [i \in ParticleIds |-> RInt(0)]
    /\ ptcl_y = [i \in ParticleIds |-> RInt(0)]
    /\ karr = FieldGrids("uniform")
    /\ out = [n \in FieldOutputs |-> [i \in ParticleIds |-> OldValue(i)]]
    /\ kopt = [dt |-> Rat(1, 2), averaging |-> FALSE, nthreads |-> 1,
               ptcl_chunk_indices |-> EvenChunks(1)]
    /\ proc = [p \in ParticleIds |->
                 [pc |-> "load", i |-> p, stop |-> p + 1,
                  cyl |-> NoLocals, loc |-> NoLocals]]
    /\ scratch = [p \in ParticleIds |-> NoLocals]
    /\ visits = [i \in ParticleIds |-> <<>>]
    /\ graised = "none"
    /\ calls = <<FALSE>>

WrapSpec == WrapInit /\ [][StencilNext]_vars

\* zmin - dz/2 <= z < zmax + dz/2, that is -1 <= z_cell < Nz
WithinHalfCell(zj, g) ==
    \E z_cell \in {CellCoordinate(g.invdz, zj, g.zmin)} :
       ~RLess(z_cell, RInt(-1)) /\ RLess(z_cell, RInt(g.Nz))

\* the index iz comes from the untreated index raw by no shift, or by one
\* shift of +Nz or -Nz, and lies in [0, Nz-1]
WrappedOnce(iz, raw, Nz) ==
    /\ 0 <= iz /\ iz <= Nz - 1
    /\ iz - raw \in {0, Nz, -Nz}
    /\ (iz - raw) % Nz = 0

\* C21: for zmin - dz/2 <= z < zmax + dz/2 and every Nz >= 1 both z support
\* indices after the boundary conditions lie in [0, Nz-1], equal the
\* untreated index modulo Nz and were shifted by Nz at most once; at
\* z = zmin - 0.4 dz the lower index is Nz-1 and the upper index 0.
C21_LongitudinalWrap ==
    \A p \in ParticleIds :
        (kernel = "field_linear" /\ HasBoundary(p)
            /\ WithinHalfCell(ptcl_z[p], kgrid)) =>
            /\ WrappedOnce(proc[p].loc.z.iz_lower, proc[p].loc.wz.lower, kgrid.Nz)
            /\ WrappedOnce(proc[p].loc.z.iz_upper, proc[p].loc.wz.upper, kgrid.Nz)
            /\ ptcl_z[p] = RSub(kgrid.zmin, RDiv(Rat(4, 10), kgrid.invdz)) =>
                  /\ proc[p].loc.z.iz_lower = kgrid.Nz - 1
                  /\ proc[p].loc.z.iz_upper = 0

\* with Nz = 1 a particle at z = zmin - 0.4 dz, whose lower index -1 became
\* 0, and a particle one cell above it, whose upper index 1 became 0
C21_Witness ==
    /\ kernel = "field_linear" /\ kgrid.Nz = 1
    /\ HasBoundary(0) /\ HasBoundary(1)
    /\ ptcl_z[0] = RSub(kgrid.zmin, RDiv(Rat(4, 10), kgrid.invdz))
    /\ proc[0].loc.wz.lower = -1 /\ proc[0].loc.z.iz_lower = 0
    /\ WithinHalfCell(ptcl_z[1], kgrid)
    /\ proc[1].loc.wz.upper = 1 /\ proc[1].loc.z.iz_upper = 0

----------------------------------------------------------------------------
(* The shape factors of the cubic kernels                                  *)

\* offsets of a particle from the cell centre below it, in cells
CubicOffsets == {Rat(0, 1), Rat(1, 100), Rat(1, 2), Rat(99, 100)}

\* every particle cr + i cells and an offset ur out in r, cz + i cells and an
\* offset uz up in z; one particle per chunk
CubicShapeInit ==
    /\ cuda_installed = FALSE /\ obj = "none" /\ meta = NoMeta
    /\ fields = <<>> /\ resident = <<>> /\ lastcall = NoCall
    /\ raised = "none" /\ writes = 0 /\ divs = 0 /\ NoHankel
    /\ kernel = "field_cubic"
    /\ kgrid = GatherGeometry
    /\ \E cr \in 0 .. kgrid.Nr, ur \in CubicOffsets :
          ptcl_x = [i \in ParticleIds |->
                       RDiv(RAdd(RAdd(RInt(cr + i), ur), Rat(1, 2)),
                            kgrid.invdr)]
    /\ ptcl_y = [i \in ParticleIds |-> RInt(0)]
    /\ \E cz \in -1 .. kgrid.Nz, uz \in CubicOffsets :
          ptcl_z = [i \in ParticleIds |->
                       RAdd(kgrid.zmin,
                            RDiv(RAdd(RAdd(RInt(cz + i), uz), Rat(1, 2)),
                                 kgrid.invdz))]
    /\ karr = FieldGrids("uniform")
    /\ out = [n \in FieldOutputs |-> [i \in ParticleIds |-> OldValue(i)]]
    /\ kopt = [dt |-> Rat(1, 2), averaging |-> FALSE, nthreads |-> NParticles,
               ptcl_chunk_indices |-> EvenChunks(NParticles)]
    /\ proc = [p \in OuterIterations(kernel, kopt.nthreads) |->
                 [pc |-> "alloc", i |-> 0, stop |-> 0,
                  cyl |-> NoLocals, loc |-> NoLocals]]
    /\ scratch = [p \in OuterIterations(kernel, kopt.nthreads) |-> NoLocals]
    /\ visits = [i \in ParticleIds |-> <<>>]
    /\ graised = "none"
    /\ calls = <<FALSE>>

\* the kernel up to the shape factors of the first particle of each chunk
CubicShapeNext ==
    \/ \E nt \in DOMAIN proc : CubicAlloc(nt)
    \/ \E nt \in DOMAIN proc : CubicShapeStep(nt)

CubicShapeSpec == CubicShapeInit /\ [][CubicShapeNext]_vars

\* the worker nt has written Sr and Sz for its particle
HasShape(nt) == nt \in DOMAIN proc /\ proc[nt].pc = "E"

\* local coordinate of the particle of nt along r and along z
LocalR(nt) ==
    RSub(CellCoordinate(kgrid.invdr, proc[nt].cyl.rj, kgrid.rmin),
         RInt(proc[nt].loc.ir_lowest))
LocalZ(nt) ==
    RSub(CellCoordinate(kgrid.invdz, ptcl_z[proc[nt].i], kgrid.zmin),
         RInt(proc[nt].loc.iz_lowest))

\* four non-negative weights of sum exactly 1
IsPartitionOfUnity(S) ==
    /\ Len(S) = 4
    /\ \A k \in 1 .. 4 : ~RNeg(S[k])
    /\ RAdd(RAdd(S[1], S[2]), RAdd(S[3], S[4])) = RInt(1)

\* C22: the local coordinate is in [1, 2) along r and along z, and the four
\* weights written to Sr, and the four written to Sz, are each non-negative
\* and sum exactly to 1, for every offset.
C22_CubicWeights ==
    \A nt \in DOMAIN proc :
        (kernel = "field_cubic" /\ HasShape(nt)) =>
            /\ ~RLess(LocalR(nt), RInt(1)) /\ RLess(LocalR(nt), RInt(2))
            /\ ~RLess(LocalZ(nt), RInt(1)) /\ RLess(LocalZ(nt), RInt(2))
            /\ IsPartitionOfUnity(scratch[ScratchOf(nt)].Sr)
            /\ IsPartitionOfUnity(scratch[ScratchOf(nt)].Sz)

\* offset 0 along r (weights 1/6, 2/3, 1/6, 0) and offset 99/100 along z
C22_Witness ==
    /\ kernel = "field_cubic" /\ HasShape(0)
    /\ LocalR(0) = RInt(1)
    /\ scratch[ScratchOf(0)].Sr = <<Rat(1, 6), Rat(2, 3), Rat(1, 6), RInt(0)>>
    /\ LocalZ(0) = Rat(199, 100)
    /\ RPos(scratch[ScratchOf(0)].Sz[1])

----------------------------------------------------------------------------
(* The cell volumes set by the constructor                                 *)

\* the last constructor call had Nz > 0, Nr > 0, zmax > zmin and rmax > 0,
\* and returned
ValidGridBuilt ==
    /\ lastcall.op = "__init__" /\ raised = "none" /\ obj # "none"
    /\ ArgNz > 0 /\ ArgNr > 0 /\ ArgZmax > ArgZmin /\ ArgRmax > 0

\* sum of the shell volumes 1/invvol[j] over j < n, as the coefficient of pi
RECURSIVE ShellVolumes(_, _)
ShellVolumes(invvol, n) ==
    IF n = 0 THEN RInt(0)
    ELSE RAdd(ShellVolumes(invvol, n - 1), RDiv(RInt(1), invvol[n - 1]))

\* C23: on every valid grid every invvol[j] is strictly positive and equals
\* 1/(pi dz ((r_j+dr/2)^2 - (r_j-dr/2)^2)); the shell volumes summed over j
\* give pi rmax^2 dz, and multiplied by Nz the volume pi rmax^2 (zmax-zmin)
\* of the cylinder.
C23_ShellVolumes ==
    ValidGridBuilt =>
        /\ DOMAIN meta.invvol = 0 .. meta.Nr - 1
        /\ \A j \in DOMAIN meta.invvol :
              /\ RPos(meta.invvol[j])
              /\ RDiv(RInt(1), meta.invvol[j]) =
                    RMul(meta.dz,
                         RSub(RPow(RMul(RInt(j + 1), meta.dr), 2),
                              RPow(RMul(RInt(j), meta.dr), 2)))
        /\ ShellVolumes(meta.invvol, meta.Nr) =
              RMul(RInt(meta.rmax * meta.rmax), meta.dz)
        /\ RMul(RInt(meta.Nz), ShellVolumes(meta.invvol, meta.Nr)) =
              RInt(meta.rmax * meta.rmax * (meta.zmax - meta.zmin))

\* a valid grid of more than one radial cell and more than one row, with
\* dz and dr different from 1
C23_Witness ==
    /\ ValidGridBuilt
    /\ meta.Nr > 1 /\ meta.Nz > 1
    /\ meta.dr = Rat(1, 2) /\ meta.dz = Rat(3, 2)
    /\ meta.invvol[0] # meta.invvol[1]

----------------------------------------------------------------------------
(* The arrays of a grid through its life                                   *)

\* a complex number: real and imaginary parts (with the powers of pi and
\* epsilon_0 that scale them)
IsComplexEntry(v) ==
    /\ DOMAIN v = DOMAIN CZero
    /\ v.re[2] > 0 /\ v.im[2] > 0

\* the array attribute n is a complex array of shape Nz x Nr
IsFieldArray(n) ==
    /\ n \in DOMAIN fields /\ n \in DOMAIN resident
    /\ DOMAIN fields[n] = Cells(meta.Nz, meta.Nr)
    /\ \A c \in DOMAIN fields[n] : IsComplexEntry(fields[n][c])

\* C24: after construction and after any sequence of erase, volume-division
\* and residency-transfer calls (returned or raised) every field array of the
\* grid exists, is complex-valued and has shape Nz x Nr; directly after
\* construction every entry of every field array is 0.
C24_Lifecycle ==
    /\ \A k \in 1 .. Len(ArraysOf(obj)) : IsFieldArray(ArraysOf(obj)[k])
    /\ lastcall.op = "__init__" =>
          \A n \in DOMAIN fields : AllZero(fields[n])

\* the arrays were written, divided by the volume, sent to the device and
\* received back
C24_Witness ==
    /\ lastcall.op = "receive" /\ raised = "none"
    /\ writes > 0 /\ divs > 0
    /\ meta.Nz > 1 /\ meta.Nr > 1
    /\ \E n \in DOMAIN fields : SomeNonZero(fields[n])
    /\ \A k \in 1 .. Len(ArraysOf(obj)) : IsFieldArray(ArraysOf(obj)[k])

----------------------------------------------------------------------------
(* The scratch arrays Sr and Sz of the cubic kernels                       *)

\* the shape factors of particle i, as the kernel writes them
ParticleShape(i) ==
    LET cyl == Cylindrical(ptcl_x[i], ptcl_y[i])
        r_cell == CellCoordinate(kgrid.invdr, cyl.rj, kgrid.rmin)
        z_cell == CellCoordinate(kgrid.invdz, ptcl_z[i], kgrid.zmin)
    IN  [Sr |-> CubicShape(RSub(r_cell, RInt(CubicLowest(r_cell)))),
         Sz |-> CubicShape(RSub(z_cell, RInt(CubicLowest(z_cell)))),
         filled |-> TRUE]

\* the worker nt has taken a particle already
HasTaken(nt) == \E i \in ParticleIds : \E k \in 1 .. Len(visits[i]) : visits[i][k] = nt

\* C25: in the cubic kernels a step of worker nt touches the scratch arrays
\* of nt alone, which no other worker uses; nt allocates them once, before
\* its first particle; the shape-factor step of a particle rewrites all four
\* entries of Sr and of Sz, and the steps that read them find the shape
\* factors of the particle being processed, not of the one before it.
C25_PrivateScratch ==
    [][(kernel \in CubicKernels =>
          \A nt \in DOMAIN proc :
              proc'[nt] # proc[nt] =>
                  /\ \A q \in DOMAIN proc \ {nt} : ScratchOf(q) # ScratchOf(nt)
                  /\ \A t \in DOMAIN scratch \ {ScratchOf(nt)} :
                        scratch'[t] = scratch[t]
                  /\ proc[nt].pc = "alloc" =>
                        /\ ~HasTaken(nt)
                        /\ scratch'[ScratchOf(nt)].filled = FALSE
                  /\ proc[nt].pc = "shape" =>
                        scratch'[ScratchOf(nt)] = ParticleShape(proc[nt].i)
                  /\ proc[nt].pc \in {"E", "B", "register"} =>
                        /\ scratch[ScratchOf(nt)] = ParticleShape(proc[nt].i)
                        /\ scratch'[ScratchOf(nt)] = scratch[ScratchOf(nt)])
      ]_vars

\* of two workers, one is about to read the shape factors of the second
\* particle of its chunk, which differ from those of the first
C25_Witness ==
    /\ kernel \in CubicKernels /\ kopt.nthreads >= 2
    /\ \E nt \in DOMAIN proc :
          /\ proc[nt].pc \in {"E", "register"}
          /\ proc[nt].i > RangeStart(nt, kopt.ptcl_chunk_indices)
          /\ scratch[ScratchOf(nt)] = ParticleShape(proc[nt].i)
          /\ ParticleShape(proc[nt].i) # ParticleShape(proc[nt].i - 1)

----------------------------------------------------------------------------
(* Construction with an MDHT method                                        *)

\* C26: DHT construction with an MDHT method, for d None or given, m equal
\* to p or not, and Fw 'symmetric' or 'inverse', runs MDHT_init to its end
\* without error, after which the object (with M and invM) exists; the index
\* m that __init__ passes is one of p-1, p, p+1.
C26_MDHTStoresMatrices ==
    (hcall.op = "__init__" /\ hcall.method \in MDHT_methods) =>
        /\ hcall.ran = <<"MDHT_init">>
        /\ hcall.exc = "none"
        /\ dht.exists
        /\ dht.m \in {dht.p - 1, dht.p, dht.p + 1}

----------------------------------------------------------------------------
(* Volume division of the susceptibility on an envelope grid               *)

\* divide_by_volume_and_e0('chi') is called on an envelope grid whose arrays
\* are where the branch taken expects them
DividesChi ==
    /\ obj = "envelope"
    /\ lastcall'.op = "divide" /\ lastcall'.arg = "chi"
    /\ meta.use_cuda \/ \A n \in DOMAIN resident : resident[n] = "host"

\* C27: divide_by_volume_and_e0('chi') returns with chi[i,j] replaced by
\* chi[i,j]*invvol[j]/epsilon_0 for every i, j, on the CPU branch and on the
\* accelerator branch alike, and with chi_a, a, dta and the grad_a arrays
\* unchanged.
C27_ChiDivided ==
    [][DividesChi =>
          /\ raised' = "none"
          /\ \A c \in DOMAIN fields["chi"] :
                fields'["chi"][c] =
                    MulByInvvolOverE0(fields["chi"][c], meta.invvol[c[2]])
          /\ \A n \in DOMAIN fields \ {"chi"} : fields'[n] = fields[n]
      ]_vars

----------------------------------------------------------------------------
(* The radial weights and the stencil products of the linear kernels, for  *)
(* every number of radial cells Nr from 1 on                               *)

\* (variant: the products with the guard weight are left out)
LinearShapes_NoGuard(r, z) ==
    [S_ll |-> RMul(z.Sz_lower, r.Sr_lower),
     S_lu |-> RMul(z.Sz_lower, r.Sr_upper),
     S_ul |-> RMul(z.Sz_upper, r.Sr_lower),
     S_uu |-> RMul(z.Sz_upper, r.Sr_upper),
     S_lg |-> RInt(0),
     S_ug |-> RInt(0)]

\* Precalculate Shapes
LinearShapes(r, z) ==
    [S_ll |-> RMul(z.Sz_lower, r.Sr_lower),
     S_lu |-> RMul(z.Sz_lower, r.Sr_upper),
     S_ul |-> RMul(z.Sz_upper, r.Sr_lower),
     S_uu |-> RMul(z.Sz_upper, r.Sr_upper),
     S_lg |-> RMul(z.Sz_lower, r.Sr_guard),
     S_ug |-> RMul(z.Sz_upper, r.Sr_guard)]

\* x by quarters of a cell from the axis to two cells beyond rmax, z by
\* quarters of a cell around zmin; the particle of index i is Nr + 1 cells
\* further out than the particle 0
ShapesInit ==
    /\ cuda_installed = FALSE /\ obj = "none" /\ meta = NoMeta
    /\ fields = <<>> /\ resident = <<>> /\ lastcall = NoCall
    /\ raised = "none" /\ writes = 0 /\ divs = 0 /\ NoHankel
    /\ kernel = "field_linear"
    /\ \E nr \in 1 .. GatherNr :
          /\ kgrid = [GatherGeometry EXCEPT !.Nr = nr]
          /\ \E kx \in 0 .. 4 * nr + 7 :
                ptcl_x = [i \in ParticleIds |->
                             RDiv(Rat(kx + 4 * i * (nr + 1), 4), kgrid.invdr)]
    /\ ptcl_y = [i \in ParticleIds |-> RInt(0)]
    /\ \E kz \in -2 .. 3 :
          ptcl_z = [i \in ParticleIds |->
                       RAdd(kgrid.zmin, RDiv(Rat(kz, 4), kgrid.invdz))]
    /\ karr = FieldGrids("uniform")
    /\ out = [n \in FieldOutputs |-> [i \in ParticleIds |-> OldValue(i)]]
    /\ kopt = [dt |-> Rat(1, 2), averaging |-> FALSE, nthreads |-> 1,
               ptcl_chunk_indices |-> EvenChunks(1)]
    /\ proc = [p \in ParticleIds |->
                 [pc |-> "load", i |-> p, stop |-> p + 1,
                  cyl |-> NoLocals, loc |-> NoLocals]]
    /\ scratch = [p \in ParticleIds |-> NoLocals]
    /\ visits = [i \in ParticleIds |-> <<>>]
    /\ graised = "none"
    /\ calls = <<FALSE>>

\* Precalculate Shapes: the six products of a z weight by an r weight
LinearShapesStep(p) ==
    /\ Running(p) /\ kernel = "field_linear" /\ proc[p].pc = "shapes"
    /\ proc' = [proc EXCEPT ![p] =
                   [@ EXCEPT !.pc = "products",
                             !.loc = [wr |-> proc[p].loc.wr,
                                      wz |-> proc[p].loc.wz,
                                      r |-> proc[p].loc.r,
                                      z |-> proc[p].loc.z,
                                      S |-> LinearShapes(proc[p].loc.r,
                                                         proc[p].loc.z)]]]
    /\ UNCHANGED <<out, scratch, visits, graised>>
    /\ GatherFrame

ShapesNext ==
    \/ \E p \in ParticleIds : LinearWeightsStep(p)
    \/ \E p \in ParticleIds : LinearBoundaryStep(p)
    \/ \E p \in ParticleIds : LinearShapesStep(p)

ShapesSpec == ShapesInit /\ [][ShapesNext]_vars

HasProducts(p) == p \in DOMAIN proc /\ proc[p].pc = "products"

\* q is in [0, 1]
InUnitInterval(q) == ~RNeg(q) /\ ~RLess(RInt(1), q)

\* C28: for every radius r >= 0 and every Nr >= 1, after the radial boundary
\* treatment both radial indices lie in [0, Nr-1] and the three radial
\* weights are non-negative and sum to 1; the six stencil products are each
\* in [0, 1] and sum to 1; for a particle beyond rmax both indices are Nr-1.
C28_RadialPartition ==
    \A p \in ParticleIds :
        (kernel = "field_linear" /\ HasProducts(p)) =>
            LET r == proc[p].loc.r
                S == proc[p].loc.S
            IN  /\ r.ir_lower \in 0 .. kgrid.Nr - 1
                /\ r.ir_upper \in 0 .. kgrid.Nr - 1
                /\ ~RNeg(r.Sr_lower) /\ ~RNeg(r.Sr_upper) /\ ~RNeg(r.Sr_guard)
                /\ RAdd(RAdd(r.Sr_lower, r.Sr_upper), r.Sr_guard) = RInt(1)
                /\ \A n \in DOMAIN S : InUnitInterval(S[n])
                /\ RAdd(RAdd(RAdd(S.S_ll, S.S_lu), RAdd(S.S_ul, S.S_uu)),
                        RAdd(S.S_lg, S.S_ug)) = RInt(1)
                /\ RLess(RDiv(RInt(kgrid.Nr), kgrid.invdr), proc[p].cyl.rj) =>
                      (r.ir_lower = kgrid.Nr - 1 /\ r.ir_upper = kgrid.Nr - 1)

\* with Nr = 1, a particle within half a cell of the axis, with a positive
\* guard weight, and a particle beyond rmax, with both indices 0; both
\* between two rows of the grid
C28_Witness ==
    /\ kernel = "field_linear" /\ kgrid.Nr = 1
    /\ HasProducts(0) /\ HasProducts(1)
    /\ RPos(proc[0].loc.r.Sr_guard) /\ RPos(proc[0].loc.S.S_lg)
    /\ RPos(proc[0].loc.S.S_ug) /\ RPos(proc[0].loc.S.S_uu)
    /\ RLess(RDiv(RInt(kgrid.Nr), kgrid.invdr), proc[1].cyl.rj)
    /\ proc[1].loc.wr.lower > 0
    /\ proc[1].loc.r.ir_lower = 0 /\ proc[1].loc.r.ir_upper = 0

----------------------------------------------------------------------------
(* What erase leaves alone                                                 *)

\* C29: erase(group) changes only the arrays of the named group: the arrays
\* of the other groups and the grid metadata (Nz, Nr, dz, dr, invvol) are as
\* before; a second erase of the same group changes nothing; and the volume
\* division called on a group that was just erased leaves it all zero.
C29_EraseFrame ==
    [][/\ lastcall'.op = "erase" =>
             /\ meta' = meta /\ obj' = obj
             /\ DOMAIN fields' = DOMAIN fields
             /\ \A n \in DOMAIN fields \ GroupArrays(obj, lastcall'.arg) :
                   fields'[n] = fields[n]
             /\ (lastcall.op = "erase" /\ lastcall.arg = lastcall'.arg) =>
                   fields' = fields
       /\ (lastcall.op = "erase" /\ lastcall'.op = "divide"
              /\ lastcall'.arg = lastcall.arg) =>
             \A n \in GroupArrays(obj, lastcall.arg) : AllZero(fields'[n])
      ]_vars

\* erase('rho') has returned on a field grid whose other arrays all hold
\* non-zero entries
C29_Witness ==
    /\ obj = "field" /\ lastcall = [op |-> "erase", arg |-> "rho"]
    /\ raised = "none" /\ writes > 0
    /\ AllZero(fields["rho"])
    /\ \A n \in DOMAIN fields \ {"rho"} : SomeNonZero(fields[n])

----------------------------------------------------------------------------
(* Repeated averaging                                                      *)

\* every call so far had averaging=True
OnlyAveraging == \A k \in 1 .. Len(calls) : calls[k]

\* the X for which v = X + (A - X)/2^k, for k >= 1
AveragedFrom(v, A, k) ==
    RDiv(RSub(RMul(RInt(2 ^ k), v), A), RInt(2 ^ k - 1))

\* C30: with the same grid and positions on every call, after k >= 1 calls
\* with averaging=True on a stored value A, a2[i] is X + (A - X)/2^k for the
\* newly computed intensity X, and is not X unless A is; after a call with
\* averaging=False, and after any averaging calls that follow it, a2[i] is X.
C30_AveragingConverges ==
    (kernel \in EnvelopeKernels /\ AllDone /\ graised = "none") =>
        \A i \in ParticleIds :
            IF OnlyAveraging
            THEN /\ IsIntensity(kernel, ptcl_x[i], ptcl_y[i], ptcl_z[i], karr,
                        kgrid, AveragedFrom(out.a2[i], OldValue(i), Len(calls)))
                 /\ HoldsIntensity(i) =>
                       IsIntensity(kernel, ptcl_x[i], ptcl_y[i], ptcl_z[i],
                                   karr, kgrid, OldValue(i))
            ELSE HoldsIntensity(i)

\* two calls with averaging=True have returned and the second changed a2,
\* which holds neither the first stored value nor the intensity
C30_Witness ==
    /\ kernel \in EnvelopeKernels /\ AllDone /\ graised = "none"
    /\ Len(calls) = 2 /\ OnlyAveraging
    /\ \A i \in ParticleIds :
          /\ ~HoldsIntensity(i) /\ out.a2[i] # OldValue(i)
          /\ IsIntensity(kernel, ptcl_x[i], ptcl_y[i], ptcl_z[i], karr, kgrid,
                         AveragedFrom(out.a2[i], OldValue(i), 2))
          /\ ~IsIntensity(kernel, ptcl_x[i], ptcl_y[i], ptcl_z[i], karr, kgrid,
                          AveragedFrom(out.a2[i], OldValue(i), 1))

====
